---------------------------- MODULE Spec2Model ----------------------------
(***************************************************************************)
(* Voice-Training-Data-Creator: the Sample Store (storage/sample_manager)  *)
(* and the Capture Buffer (audio/recorder) as state machines.              *)
(*                                                                         *)
(* The Sample Store is driven by one thread (the UI thread); each of its   *)
(* operations is one action.  A filesystem call of an operation may raise  *)
(* (the operations catch Exception and return (False, str(e))); the point  *)
(* at which it raises is an input of the action.                           *)
(*                                                                         *)
(* The Capture Buffer is shared between the caller's thread and the audio  *)
(* callback thread; is_recording and is_paused are read by the callback    *)
(* without the lock, so every read and write of them is a step of its own. *)
(*                                                                         *)
(* The two front-ends (main.py, the Flet application; ui/main_window.py     *)
(* with ui/recording_panel.py, the Qt application) are modelled by the      *)
(* state their record, stop and save actions read and write; a call they    *)
(* make into the recorder or the store is one step with its outcome chosen  *)
(* by the environment.                                                      *)
(*                                                                         *)
(* The Validators (utils/validators.py) and the dataset queries of the     *)
(* Sample Store are pure functions: each is an operator, applied by a call *)
(* action to arguments or to a dataset drawn in the initial state.         *)
(*                                                                         *)
(* Variables whose comment says "history" record what happened (inputs,    *)
(* return values); the program does not hold them.                         *)
(***************************************************************************)
EXTENDS Integers, Sequences, FiniteSets, TLC

VARIABLES
    fs,            \* samples_dir: folder name -> (file name -> content)
    given,         \* history: folder name -> what save_sample was given for it
    storeRet,      \* history: the last Sample Store call and what it returned
    freed,         \* history: numbers freed by delete_sample, not occupied since
    everFailed,    \* history: some Sample Store call has returned (False, error)
    faults,        \* history: filesystem calls that have raised so far
    is_recording,  \* AudioRecorder.is_recording
    is_paused,     \* AudioRecorder.is_paused
    audio_data,    \* AudioRecorder._audio_data: the chunks appended
    stream,        \* AudioRecorder._stream: "None", "Created" or "Active"
    lock,          \* AudioRecorder._lock: "free", "caller" or "callback"
    callerPc,      \* the caller thread's position in a recorder method
    cbPc,          \* the audio callback's position
    cbChunk,       \* indata of the running callback (0: none)
    chunkCount,    \* history: chunks the stream has delivered so far
    expected,      \* history: chunks delivered while recording and not paused
    pausedChunks,  \* history: chunks delivered while recording and paused
    resumed,       \* history: resume_recording has taken effect this session
    resumedChunks, \* history: chunks of expected delivered after a resume
    arrived,       \* history: chunks the stream delivered since the last start
    appended,      \* history: chunks appended to the buffer since the last start
    discarded,     \* history: chunks clear_audio removed since the last start
    recRet,        \* history: the last recorder call and what it returned
    configured,    \* ConfigManager: a base path is set (is_configured())
    flet,          \* VoiceTrainingApp: current_audio, text_edit.value, capturing
    qt,            \* MainWindow: current_audio, the text panel's text, capturing
    uiRet,         \* history: the last front-end action and its outcome
    durRet,        \* history: the last get_duration / has_audio_data result
    level_callback,\* AudioRecorder._level_callback is set (not None)
    valIn,         \* the arguments of a validator call
    valRet,        \* history: the last validator call and what it returned
    queryRet,      \* history: the last dataset query and what it returned
    genIn,         \* what the narration service answers to the next request
    genRet         \* history: the last generate_text call and what it returned

storeVars == <<fs, given, storeRet, freed, everFailed, faults>>
recVars == <<is_recording, is_paused, audio_data, stream, lock, callerPc,
             cbPc, cbChunk, chunkCount, expected, pausedChunks, resumed,
             resumedChunks, arrived, appended, discarded, recRet>>
appVars == <<configured, flet, qt, uiRet>>
pollVars == <<durRet, level_callback>>
genVars == <<genIn, genRet>>
pureVars == <<valIn, valRet, queryRet, genVars>>
vars == <<fs, given, storeRet, freed, everFailed, faults, is_recording,
          is_paused, audio_data, stream, lock, callerPc, cbPc, cbChunk,
          chunkCount, expected, pausedChunks, resumed, resumedChunks, arrived,
          appended, discarded, recRet, configured, flet, qt, uiRet, durRet,
          level_callback, valIn, valRet, queryRet, genIn, genRet>>

-----------------------------------------------------------------------------
(* Bounds *)

\* save_sample is not called once this many folders' numbers are in use
MaxNum == 3
\* the filesystem calls that raise in one run
MaxFaults == 1
\* the longest text handed to save_sample
MaxTextLen == 1
\* the chunks the input stream delivers in one run
MaxChunks == 3

\* the characters and phrases of a response of the narration service
MaxResponseLen == 4

-----------------------------------------------------------------------------
(* Generic helpers *)

Max(S) == CHOOSE x \in S : \A y \in S : y <= x

Min(S) == CHOOSE x \in S : \A y \in S : x <= y

Without(f, k) == [x \in DOMAIN f \ {k} |-> f[x]]

With(f, k, v) == [x \in DOMAIN f \cup {k} |-> IF x = k THEN v ELSE f[x]]

RECURSIVE SortedSeq(_)
\* list.sort() of a list of distinct integers
SortedSeq(S) == IF S = {} THEN <<>> ELSE <<Min(S)>> \o SortedSeq(S \ {Min(S)})

RECURSIVE SeqsUpTo(_, _)
SeqsUpTo(A, n) ==
    IF n = 0 THEN {<<>>}
    ELSE LET shorter == SeqsUpTo(A, n - 1)
         IN shorter \cup {Append(s, a) : s \in shorter, a \in A}

-----------------------------------------------------------------------------
(* Names: folders are f"{n:03d}", files f"{n}.wav", f"{n}.txt",            *)
(* f"{n}_metadata.json".  A folder name is its sequence of decimal digits. *)

RECURSIVE Digits(_)
Digits(n) == IF n < 10 THEN <<n>> ELSE Append(Digits(n \div 10), n % 10)

RECURSIVE ZeroPad(_, _)
ZeroPad(d, width) == IF Len(d) >= width THEN d ELSE ZeroPad(<<0>> \o d, width)

\* get_sample_folder: samples_dir / f"{sample_num:03d}"
get_sample_folder(sample_num) == ZeroPad(Digits(sample_num), 3)

RECURSIVE IntOf(_)
\* int(item.name)
IntOf(name) ==
    IF name = <<>> THEN 0
    ELSE 10 * IntOf(SubSeq(name, 1, Len(name) - 1)) + name[Len(name)]

\* the numeric directories of samples_dir, as numbers
NumericDirs(f) == {IntOf(name) : name \in DOMAIN f}

FileName(kind, num) == [kind |-> kind, num |-> num]

Kinds == {"wav", "txt", "meta"}

-----------------------------------------------------------------------------
(* Contents *)

Chars == {"a", "CR"}

TextInputs == SeqsUpTo(Chars, MaxTextLen) \ {<<>>}

\* os.linesep of the platform (POSIX)
os_linesep == <<"LF">>

RECURSIVE WriteText(_)
\* Path.write_text(text, encoding='utf-8'): text mode, newline=None, so
\* "\n" is written as os.linesep
WriteText(t) ==
    IF t = <<>> THEN <<>>
    ELSE (IF Head(t) = "LF" THEN os_linesep ELSE <<Head(t)>>) \o WriteText(Tail(t))

RECURSIVE ReadText(_)
\* Path.read_text(encoding='utf-8'): universal newlines, "\r\n" and "\r"
\* are read as "\n"
ReadText(b) ==
    IF b = <<>> THEN <<>>
    ELSE IF Head(b) = "CR"
         THEN IF Len(b) >= 2 /\ b[2] = "LF"
              THEN <<"LF">> \o ReadText(SubSeq(b, 3, Len(b)))
              ELSE <<"LF">> \o ReadText(Tail(b))
         ELSE <<Head(b)>> \o ReadText(Tail(b))

AudioData == {"w1"}

\* audio_path: a file holding a waveform, or the very path save_sample is
\* about to move the audio to (a path with no file makes shutil.move raise:
\* the fault "audio")
AudioSources == [kind : {"file", "target"}, data : AudioData]

\* A metadata map is a set of <<key, value>>, a key <<type, text>>
StrKeyMap == {<< <<"str", "wpm">>, 150 >>}

\* metadata: None (given = FALSE) or a map
MetaInputs == {[given |-> FALSE, map |-> {}],
               [given |-> TRUE, map |-> {}],
               [given |-> TRUE, map |-> StrKeyMap]}

\* The arguments of one save_sample call: the usual call (a recorded file,
\* a plain text, a metadata map), and each argument varied in turn
UsualText == <<"a">>

UsualSave == [src |-> [kind |-> "file", data |-> "w1"], text |-> UsualText,
              meta |-> [given |-> TRUE, map |-> StrKeyMap]]

SaveInputs ==
    {UsualSave}
      \cup {[UsualSave EXCEPT !.src = s] : s \in AudioSources}
      \cup {[UsualSave EXCEPT !.text = t] : t \in TextInputs}
      \cup {[UsualSave EXCEPT !.meta = m] : m \in MetaInputs}

\* json.dump(metadata, f): every key is written as a string
JsonDump(m) == [whole |-> TRUE, obj |-> {<< <<"str", p[1][2]>>, p[2] >> : p \in m}]

\* what an interrupted json.dump leaves: not a JSON document
JsonTruncated == [whole |-> FALSE, obj |-> {}]

-----------------------------------------------------------------------------
(* Sample Store: queries (storage/sample_manager.py) *)

EmptyDir == [x \in {} |-> 0]

\* the names of the files of folder `folder` ({} when it does not exist)
Files(f, folder) == IF folder \in DOMAIN f THEN DOMAIN f[folder] ELSE {}

get_next_sample_number_by_count(f) == Cardinality(NumericDirs(f)) + 1

get_next_sample_number_no_increment(f) ==
    IF NumericDirs(f) = {} THEN 1 ELSE Max(NumericDirs(f))

\* get_next_sample_number returning the lowest number not in use
get_next_sample_number_first_free(f) ==
    Min({n \in 1 .. Cardinality(NumericDirs(f)) + 1 : n \notin NumericDirs(f)})

\* get_next_sample_number: max(existing) + 1, or 1
get_next_sample_number(f) ==
    IF NumericDirs(f) = {} THEN 1 ELSE Max(NumericDirs(f)) + 1

\* get_total_samples: the count of numeric directories
get_total_samples(f) == Cardinality(DOMAIN f)

\* get_sample_info: None (found = FALSE) when the folder does not exist;
\* raised when json.load fails; text_content and metadata are meaningful
\* only with has_text and has_metadata
get_sample_info(f, sample_num) ==
    LET folder == get_sample_folder(sample_num)
        audio_file == FileName("wav", sample_num)
        text_file == FileName("txt", sample_num)
        metadata_file == FileName("meta", sample_num)
        has(file) == file \in Files(f, folder)
    IN IF folder \notin DOMAIN f
       THEN [found |-> FALSE, raised |-> FALSE, number |-> sample_num,
             has_audio |-> FALSE, has_text |-> FALSE, has_metadata |-> FALSE,
             text_content |-> <<>>, metadata |-> {}]
       ELSE [found |-> TRUE,
             raised |-> has(metadata_file) /\ ~f[folder][metadata_file].whole,
             number |-> sample_num,
             has_audio |-> has(audio_file),
             has_text |-> has(text_file),
             has_metadata |-> has(metadata_file),
             text_content |-> IF has(text_file)
                              THEN ReadText(f[folder][text_file]) ELSE <<>>,
             metadata |-> IF has(metadata_file)
                          THEN f[folder][metadata_file].obj ELSE {}]

-----------------------------------------------------------------------------
(* Sample Store: queries over the whole dataset.  An audio file holds a    *)
(* waveform ("w1", "w2") or is not a sound file ("corrupt").               *)

WavContents == {"w1", "w2", "corrupt"}

\* sf.info(audio_file) raises
Unreadable(content) == content = "corrupt"

\* sf.info(audio_file).duration, in seconds
Duration(content) == IF content = "w1" THEN 30 ELSE 90

\* line 173: total_seconds / 60.0
SecondsPerMinute == 60

\* a number of minutes, as seconds over SecondsPerMinute
Minutes(total_seconds) == [num |-> total_seconds, den |-> SecondsPerMinute]

\* lines 163-171: what one directory adds to total_seconds
SecondsOf(f, name) ==
    LET sample_num == IntOf(name)
        audio_file == FileName("wav", sample_num)
    IN IF audio_file \in DOMAIN f[name] /\ ~Unreadable(f[name][audio_file])
       THEN Duration(f[name][audio_file])
       ELSE 0

RECURSIVE TotalSeconds(_, _)
\* lines 160-171: the loop over samples_dir.iterdir()
TotalSeconds(f, names) ==
    IF names = {} THEN 0
    ELSE LET item == CHOOSE name \in names : TRUE
         IN SecondsOf(f, item) + TotalSeconds(f, names \ {item})

\* estimate_total_duration in which an unreadable file ends the loop
estimate_total_duration_abort(f, sample_rate) ==
    IF \E name \in DOMAIN f :
          /\ FileName("wav", IntOf(name)) \in DOMAIN f[name]
          /\ Unreadable(f[name][FileName("wav", IntOf(name))])
    THEN Minutes(0)
    ELSE Minutes(TotalSeconds(f, DOMAIN f))

\* SampleManager.estimate_total_duration
estimate_total_duration(f, sample_rate) == Minutes(TotalSeconds(f, DOMAIN f))

\* lines 201-215: the record get_all_samples makes of a directory
SampleRecord(f, name) ==
    LET sample_num == IntOf(name)
        info == get_sample_info(f, sample_num)
        audio_file == FileName("wav", sample_num)
    IN [number |-> sample_num,
        found |-> info.found,
        raised |-> info.raised,
        has_audio |-> info.has_audio,
        has_text |-> info.has_text,
        has_duration |-> audio_file \in DOMAIN f[name],
        duration |-> IF audio_file \in DOMAIN f[name]
                        /\ ~Unreadable(f[name][audio_file])
                     THEN Duration(f[name][audio_file]) ELSE 0]

\* SampleManager.get_all_samples: raised when a get_sample_info call
\* raises; else the records of the directories get_sample_info finds,
\* sorted by number
get_all_samples(f) ==
    LET records == {SampleRecord(f, name) : name \in DOMAIN f}
        kept == {r \in records : r.found}
        numbers == SortedSeq({r.number : r \in kept})
    IN IF \E r \in records : r.raised
       THEN [raised |-> TRUE, samples |-> <<>>]
       ELSE [raised |-> FALSE,
             samples |-> [i \in 1 .. Len(numbers) |->
                            CHOOSE r \in kept : r.number = numbers[i]]]

\* the sample rates passed to estimate_total_duration
RateArguments == {16000, 44100}

\* the datasets queried: each of the folders 1 .. MaxNum absent, without
\* audio file, or with an audio file
FolderChoices == {"absent", "no_audio"} \cup WavContents

FolderOf(num, choice) ==
    IF choice = "no_audio" THEN EmptyDir
    ELSE [file \in {FileName("wav", num)} |-> choice]

Datasets ==
    {[name \in {get_sample_folder(n) : n \in {m \in 1 .. MaxNum : c[m] # "absent"}}
        |-> FolderOf(IntOf(name), c[IntOf(name)])] :
       c \in [1 .. MaxNum -> FolderChoices]}

NoQuery == [op |-> "none", minutes |-> Minutes(0), raised |-> FALSE,
            numbers |-> <<>>]

\* estimate_total_duration(sample_rate) is called
call_estimate_total_duration ==
    /\ \E sample_rate \in RateArguments :
         queryRet' = [NoQuery EXCEPT
                        !.op = "estimate_total_duration",
                        !.minutes = estimate_total_duration(fs, sample_rate)]
    /\ UNCHANGED <<valIn, valRet, genVars>>
    /\ UNCHANGED <<storeVars, recVars, appVars, pollVars>>

\* get_all_samples() is called
call_get_all_samples ==
    /\ \E r \in {get_all_samples(fs)} :
         queryRet' = [NoQuery EXCEPT
                        !.op = "get_all_samples",
                        !.raised = r.raised,
                        !.numbers = [i \in 1 .. Len(r.samples) |->
                                       r.samples[i].number]]
    /\ UNCHANGED <<valIn, valRet, genVars>>
    /\ UNCHANGED <<storeVars, recVars, appVars, pollVars>>

-----------------------------------------------------------------------------
(* Sample Store: save_sample *)

\* where a filesystem call of save_sample raises, and how much of the file
\* it was writing is left: part = 0, no file; part = j > 0, the first j - 1
\* characters (text) or an incomplete document (metadata)
NoFault == [step |-> "none", part |-> 0]

SaveFaults ==
    {NoFault} \cup [step : {"mkdir", "audio"}, part : {0}]
              \cup [step : {"text"}, part : 0 .. MaxTextLen]
              \cup [step : {"meta"}, part : {0, 1}]

\* if metadata: None and {} are both falsy
MetadataTruthy(meta) == meta.given /\ meta.map # {}

\* save_sample(audio_path, text_content, metadata) with the fault injected:
\* [fs: the tree afterwards, ok: the success flag, num: the folder created
\* (0: none)]
SaveSample(f, src, text_content, meta, fault) ==
    LET sample_num == get_next_sample_number(f)
        sample_folder == get_sample_folder(sample_num)
        \* sample_folder.mkdir(parents=True, exist_ok=True)
        f1 == IF sample_folder \in DOMAIN f THEN f
              ELSE With(f, sample_folder, EmptyDir)
        put(g, file, content) ==
            With(g, sample_folder, With(g[sample_folder], file, content))
        text_file == FileName("txt", sample_num)
        bytes == WriteText(text_content)
        \* text_file.write_text raising
        f2bad == IF fault.part = 0 \/ fault.part > Len(bytes) THEN f1
                 ELSE put(f1, text_file, SubSeq(bytes, 1, fault.part - 1))
        f2 == put(f1, text_file, bytes)
        target_audio == FileName("wav", sample_num)
        moves == src.kind # "target"
        f3 == IF moves THEN put(f2, target_audio, src.data) ELSE f2
        metadata_file == FileName("meta", sample_num)
        f4bad == IF fault.part = 0 THEN f3
                 ELSE put(f3, metadata_file, JsonTruncated)
        f4 == put(f3, metadata_file, JsonDump(meta.map))
    IN IF fault.step = "mkdir" THEN [fs |-> f, ok |-> FALSE, num |-> 0]
       ELSE IF fault.step = "text"
       THEN [fs |-> f2bad, ok |-> FALSE, num |-> sample_num]
       ELSE IF moves /\ fault.step = "audio"
       THEN [fs |-> f2, ok |-> FALSE, num |-> sample_num]
       ELSE IF ~MetadataTruthy(meta)
       THEN [fs |-> f3, ok |-> TRUE, num |-> sample_num]
       ELSE IF fault.step = "meta"
       THEN [fs |-> f4bad, ok |-> FALSE, num |-> sample_num]
       ELSE [fs |-> f4, ok |-> TRUE, num |-> sample_num]

-----------------------------------------------------------------------------
(* Sample Store: delete_sample *)

\* the artifacts renamed in a renumbered folder, in the code's order
ArtifactKindsNoMetadata == <<"wav", "txt">>

ArtifactKinds == <<"wav", "txt", "meta">>

DeleteSteps == {"rmtree", "folder", "wav", "txt", "meta"}

\* where a filesystem call of delete_sample raises: the step, for a rename
\* the old number it is renaming (at), for rmtree the files it had not yet
\* removed (keep)
NoDeleteFault == [step |-> "none", at |-> 0, keep |-> {}]

DeleteFaults(f, sample_num) ==
    {NoDeleteFault}
      \cup {[step |-> "rmtree", at |-> 0, keep |-> k] :
              k \in SUBSET Files(f, get_sample_folder(sample_num))}
      \cup {[step |-> s, at |-> n, keep |-> {}] :
              s \in DeleteSteps \ {"rmtree"}, n \in NumericDirs(f)}

RECURSIVE RenameArtifacts(_, _, _, _, _)
\* lines 255-269: inside the renamed folder, each artifact named for
\* old_num that exists is renamed for new_num; [dir, ok]
RenameArtifacts(dir, old_num, new_num, kinds, failKind) ==
    IF kinds = <<>> THEN [dir |-> dir, ok |-> TRUE]
    ELSE LET old_file == FileName(Head(kinds), old_num)
             new_file == FileName(Head(kinds), new_num)
         IN IF old_file \notin DOMAIN dir
            THEN RenameArtifacts(dir, old_num, new_num, Tail(kinds), failKind)
            ELSE IF failKind = Head(kinds) THEN [dir |-> dir, ok |-> FALSE]
            ELSE RenameArtifacts(With(Without(dir, old_file), new_file, dir[old_file]),
                                 old_num, new_num, Tail(kinds), failKind)

\* Path.rename of a folder raises when the target is a non-empty folder
RenameCollides(f, new_folder) ==
    new_folder \in DOMAIN f /\ DOMAIN f[new_folder] # {}

\* one iteration of the loop of lines 247-269 on st = [fs, given, ok]
RenumberOne(st, old_num, fault) ==
    LET new_num == old_num - 1
        old_folder == get_sample_folder(old_num)
        new_folder == get_sample_folder(new_num)
        hit == fault.at = old_num
        moved == With(Without(st.fs, old_folder), new_folder, st.fs[old_folder])
        movedGiven == IF old_folder \in DOMAIN st.given
                      THEN With(Without(st.given, old_folder), new_folder,
                                st.given[old_folder])
                      ELSE Without(st.given, new_folder)
        r == RenameArtifacts(st.fs[old_folder], old_num, new_num, ArtifactKinds,
                             IF hit THEN fault.step ELSE "none")
    IN IF (hit /\ fault.step = "folder") \/ RenameCollides(st.fs, new_folder)
       THEN [fs |-> st.fs, given |-> st.given, ok |-> FALSE]
       ELSE [fs |-> With(moved, new_folder, r.dir), given |-> movedGiven,
             ok |-> r.ok]

RECURSIVE Renumber(_, _, _)
\* the loop of lines 247-269 over all_samples, stopping where a call raises
Renumber(st, all_samples, fault) ==
    IF all_samples = <<>> \/ ~st.ok THEN st
    ELSE Renumber(RenumberOne(st, Head(all_samples), fault), Tail(all_samples),
                  fault)

RECURSIVE RenameLog(_, _, _)
\* the folder renames of line 253 the loop makes, in order: the old number
\* and whether new_folder exists when old_folder.rename(new_folder) is called
RenameLog(st, all_samples, fault) ==
    IF all_samples = <<>> \/ ~st.ok THEN <<>>
    ELSE <<[old_num |-> Head(all_samples),
            target_exists |->
                get_sample_folder(Head(all_samples) - 1) \in DOMAIN st.fs]>>
           \o RenameLog(RenumberOne(st, Head(all_samples), fault),
                        Tail(all_samples), fault)

FolderExistsAlways(f, folder) == TRUE

\* line 230: folder.exists()
FolderExists(f, folder) == folder \in DOMAIN f

SubsequentSamplesAll(f, sample_num) == SortedSeq(NumericDirs(f))

RECURSIVE Reversed(_)
Reversed(q) == IF q = <<>> THEN <<>> ELSE Append(Reversed(Tail(q)), Head(q))

\* lines 238-246 with the list sorted in descending order
SubsequentSamplesDescending(f, sample_num) ==
    Reversed(SortedSeq({num \in NumericDirs(f) : num > sample_num}))

\* lines 238-246: the numeric directories above sample_num, sorted
SubsequentSamples(f, sample_num) ==
    SortedSeq({num \in NumericDirs(f) : num > sample_num})

\* delete_sample(sample_num) with the fault injected: [fs, given, ok, found,
\* removed: the folder was removed]
DeleteSample(f, g, sample_num, fault) ==
    LET folder == get_sample_folder(sample_num)
        f1 == Without(f, folder)
        all_samples == SubsequentSamples(f1, sample_num)
        st == Renumber([fs |-> f1, given |-> Without(g, folder), ok |-> TRUE],
                       all_samples, fault)
    IN IF ~FolderExists(f, folder)
       THEN [fs |-> f, given |-> g, ok |-> FALSE, found |-> FALSE,
             removed |-> FALSE]
       ELSE IF fault.step = "rmtree"
       THEN [fs |-> With(f, folder, [x \in fault.keep |-> f[folder][x]]),
             given |-> g, ok |-> FALSE, found |-> TRUE, removed |-> FALSE]
       ELSE [fs |-> st.fs, given |-> st.given, ok |-> st.ok, found |-> TRUE,
             removed |-> TRUE]

-----------------------------------------------------------------------------
(* Sample Store: the calls *)

\* the record of a call: num is the folder a save created (0: none) or the
\* number a delete was given; reused, a save was given a number in freed;
\* failedAt, the filesystem call that raised ("none": none did)
NoCall == [op |-> "none", ok |-> TRUE, num |-> 0, reused |-> FALSE,
           failedAt |-> "none"]

\* SampleManager.save_sample
save_sample ==
    /\ get_next_sample_number(fs) <= MaxNum
    /\ \E in \in SaveInputs, fault \in SaveFaults :
         \E r \in {SaveSample(fs, in.src, in.text, in.meta, fault)} :
            /\ fs' = r.fs
            /\ given' = IF r.num = 0 THEN given
                        ELSE With(given, get_sample_folder(r.num),
                                  [text |-> in.text, meta |-> in.meta,
                                   ok |-> r.ok])
            /\ storeRet' = [op |-> "save", ok |-> r.ok, num |-> r.num,
                            reused |-> r.num \in freed,
                            failedAt |-> fault.step]
            /\ freed' = freed \ {r.num}
            /\ everFailed' = (everFailed \/ ~r.ok)
            /\ fault # NoFault => (faults < MaxFaults /\ ~r.ok)
            /\ faults' = IF fault = NoFault THEN faults ELSE faults + 1
    /\ UNCHANGED <<recVars, appVars, pollVars, pureVars>>

\* SampleManager.delete_sample
delete_sample ==
    /\ \E sample_num \in 1 .. MaxNum :
         \E fault \in DeleteFaults(fs, sample_num) :
           \E r \in {DeleteSample(fs, given, sample_num, fault)} :
              /\ fs' = r.fs
              /\ given' = r.given
              /\ storeRet' = [op |-> "delete", ok |-> r.ok, num |-> sample_num,
                              reused |-> FALSE, failedAt |-> fault.step]
              /\ freed' = (freed \cup (IF r.removed THEN {sample_num} ELSE {}))
                             \ NumericDirs(r.fs)
              /\ everFailed' = (everFailed \/ ~r.ok)
              /\ fault # NoDeleteFault =>
                   (faults < MaxFaults /\ r.found /\ ~r.ok)
              /\ faults' = IF fault = NoDeleteFault THEN faults ELSE faults + 1
    /\ UNCHANGED <<recVars, appVars, pollVars, pureVars>>

-----------------------------------------------------------------------------
(* Capture Buffer (audio/recorder.py): the caller's thread *)

\* what sd.InputStream(...) and stream.start() do with the device of a call
Devices == {"ok", "open_fails", "start_fails"}

NoRecCall == [op |-> "none", raised |-> FALSE, val |-> <<>>, null |-> TRUE,
              wasRecording |-> FALSE, afterFailedStart |-> FALSE,
              device |-> "none"]

\* the record of a call that returns nothing
Returned(op, wasRecording) ==
    [NoRecCall EXCEPT !.op = op, !.wasRecording = wasRecording]

\* start_recording without the early return of lines 43-44: the buffer is cleared
start_recording_restart ==
    /\ callerPc = "idle"
    /\ is_recording
    /\ \E device \in Devices :
         recRet' = [Returned("start", TRUE) EXCEPT
                      !.device = device,
                      !.afterFailedStart = (recRet.op = "start" /\ recRet.raised)]
    /\ audio_data' = <<>>
    /\ UNCHANGED <<is_recording, is_paused, stream, lock, callerPc,
                   cbPc, cbChunk, chunkCount, expected, pausedChunks, resumed,
                   resumedChunks>>
    /\ UNCHANGED <<arrived, appended, discarded>>
    /\ UNCHANGED <<storeVars, appVars, pollVars, pureVars>>

\* start_recording, lines 43-44: already recording, return
start_recording_noop ==
    /\ callerPc = "idle"
    /\ is_recording
    /\ \E device \in Devices :
         recRet' = [Returned("start", TRUE) EXCEPT
                      !.device = device,
                      !.afterFailedStart = (recRet.op = "start" /\ recRet.raised)]
    /\ UNCHANGED <<is_recording, is_paused, audio_data, stream, lock, callerPc,
                   cbPc, cbChunk, chunkCount, expected, pausedChunks, resumed,
                   resumedChunks>>
    /\ UNCHANGED <<arrived, appended, discarded>>
    /\ UNCHANGED <<storeVars, appVars, pollVars, pureVars>>

\* start_recording, lines 46-49: under the lock, clear the buffer and set
\* the flags (no callback runs here: the stream is not open)
start_recording_reset ==
    /\ callerPc = "idle"
    /\ ~is_recording
    /\ lock = "free"
    /\ audio_data' = <<>>
    /\ is_recording' = TRUE
    /\ is_paused' = FALSE
    /\ callerPc' = "start_open"
    /\ expected' = <<>>
    /\ pausedChunks' = {}
    /\ resumed' = FALSE
    /\ resumedChunks' = {}
    /\ \E device \in Devices :
         recRet' = [Returned("start", FALSE) EXCEPT
                      !.device = device,
                      !.afterFailedStart = (recRet.op = "start" /\ recRet.raised)]
    /\ UNCHANGED <<stream, lock, cbPc, cbChunk, chunkCount>>
    /\ arrived' = {}
    /\ appended' = {}
    /\ discarded' = {}
    /\ UNCHANGED <<storeVars, appVars, pollVars, pureVars>>

\* start_recording, lines 65-72: self._stream = sd.InputStream(...) and
\* self._stream.start(); either may raise, and the exception leaves the method
start_recording_open ==
    /\ callerPc = "start_open"
    /\ callerPc' = "idle"
    /\ stream' = CASE recRet.device = "ok" -> "Active"
                   [] recRet.device = "start_fails" -> "Created"
                   [] OTHER -> stream
    /\ recRet' = [recRet EXCEPT !.raised = (recRet.device # "ok")]
    /\ UNCHANGED <<is_recording, is_paused, audio_data, lock, cbPc, cbChunk,
                   chunkCount, expected, pausedChunks, resumed,
                   resumedChunks>>
    /\ UNCHANGED <<arrived, appended, discarded>>
    /\ UNCHANGED <<storeVars, appVars, pollVars, pureVars>>

\* pause_recording without the test of line 76
pause_recording_unguarded ==
    /\ callerPc = "idle"
    /\ is_paused' = TRUE
    /\ recRet' = Returned("pause", is_recording)
    /\ UNCHANGED <<is_recording, audio_data, stream, lock, callerPc, cbPc,
                   cbChunk, chunkCount, expected, pausedChunks, resumed,
                   resumedChunks>>
    /\ UNCHANGED <<arrived, appended, discarded>>
    /\ UNCHANGED <<storeVars, appVars, pollVars, pureVars>>

\* pause_recording, lines 76-77
pause_recording ==
    /\ callerPc = "idle"
    /\ is_paused' = IF is_recording /\ ~is_paused THEN TRUE ELSE is_paused
    /\ recRet' = Returned("pause", is_recording)
    /\ UNCHANGED <<is_recording, audio_data, stream, lock, callerPc, cbPc,
                   cbChunk, chunkCount, expected, pausedChunks, resumed,
                   resumedChunks>>
    /\ UNCHANGED <<arrived, appended, discarded>>
    /\ UNCHANGED <<storeVars, appVars, pollVars, pureVars>>

\* resume_recording, lines 81-82
resume_recording ==
    /\ callerPc = "idle"
    /\ is_paused' = IF is_recording /\ is_paused THEN FALSE ELSE is_paused
    /\ resumed' = (resumed \/ (is_recording /\ is_paused))
    /\ recRet' = Returned("resume", is_recording)
    /\ UNCHANGED <<is_recording, audio_data, stream, lock, callerPc, cbPc,
                   cbChunk, chunkCount, expected, pausedChunks, resumedChunks>>
    /\ UNCHANGED <<arrived, appended, discarded>>
    /\ UNCHANGED <<storeVars, appVars, pollVars, pureVars>>

\* stop_recording, lines 90-91: not recording, return None
stop_recording_noop ==
    /\ callerPc = "idle"
    /\ ~is_recording
    /\ recRet' = Returned("stop", FALSE)
    /\ UNCHANGED <<is_recording, is_paused, audio_data, stream, lock, callerPc,
                   cbPc, cbChunk, chunkCount, expected, pausedChunks, resumed,
                   resumedChunks>>
    /\ UNCHANGED <<arrived, appended, discarded>>
    /\ UNCHANGED <<storeVars, appVars, pollVars, pureVars>>

\* stop_recording with line 93 but without line 94: is_paused is left alone
stop_recording_skip_paused ==
    /\ callerPc = "idle"
    /\ is_recording
    /\ is_recording' = FALSE
    /\ callerPc' = "stop_stream"
    /\ recRet' = Returned("stop", TRUE)
    /\ UNCHANGED <<is_paused, audio_data, stream, lock, cbPc, cbChunk,
                   chunkCount, expected, pausedChunks, resumed,
                   resumedChunks>>
    /\ UNCHANGED <<arrived, appended, discarded>>
    /\ UNCHANGED <<storeVars, appVars, pollVars, pureVars>>

\* stop_recording, line 93: self.is_recording = False
stop_recording_clear_recording ==
    /\ callerPc = "idle"
    /\ is_recording
    /\ is_recording' = FALSE
    /\ callerPc' = "stop_paused"
    /\ recRet' = Returned("stop", TRUE)
    /\ UNCHANGED <<is_paused, audio_data, stream, lock, cbPc, cbChunk,
                   chunkCount, expected, pausedChunks, resumed,
                   resumedChunks>>
    /\ UNCHANGED <<arrived, appended, discarded>>
    /\ UNCHANGED <<storeVars, appVars, pollVars, pureVars>>

\* stop_recording without line 94
stop_recording_keep_paused ==
    /\ callerPc = "stop_paused"
    /\ is_paused' = is_paused
    /\ callerPc' = "stop_stream"
    /\ UNCHANGED <<is_recording, audio_data, stream, lock, cbPc, cbChunk,
                   chunkCount, expected, pausedChunks, resumed,
                   resumedChunks, recRet>>
    /\ UNCHANGED <<arrived, appended, discarded>>
    /\ UNCHANGED <<storeVars, appVars, pollVars, pureVars>>

\* stop_recording with the with block of line 101 opened before the
\* stream is stopped: the lock is taken at line 94
stop_recording_clear_paused_locked ==
    /\ callerPc = "stop_paused"
    /\ lock = "free"
    /\ lock' = "caller"
    /\ is_paused' = FALSE
    /\ callerPc' = "stop_stream"
    /\ UNCHANGED <<is_recording, audio_data, stream, cbPc, cbChunk,
                   chunkCount, expected, pausedChunks, resumed,
                   resumedChunks, recRet>>
    /\ UNCHANGED <<arrived, appended, discarded>>
    /\ UNCHANGED <<storeVars, appVars, pollVars, pureVars>>

\* stop_recording, line 94: self.is_paused = False
stop_recording_clear_paused ==
    /\ callerPc = "stop_paused"
    /\ is_paused' = FALSE
    /\ callerPc' = "stop_stream"
    /\ UNCHANGED <<is_recording, audio_data, stream, lock, cbPc, cbChunk,
                   chunkCount, expected, pausedChunks, resumed,
                   resumedChunks, recRet>>
    /\ UNCHANGED <<arrived, appended, discarded>>
    /\ UNCHANGED <<storeVars, appVars, pollVars, pureVars>>

\* stop_recording, lines 96-99: stream.stop() returns once the running
\* callback has returned, and no callback is invoked afterwards
stop_recording_close ==
    /\ callerPc = "stop_stream"
    /\ stream = "Active" => cbPc = "idle"
    /\ stream' = "None"
    /\ callerPc' = "stop_collect"
    /\ UNCHANGED <<is_recording, is_paused, audio_data, lock, cbPc, cbChunk,
                   chunkCount, expected, pausedChunks, resumed,
                   resumedChunks, recRet>>
    /\ UNCHANGED <<arrived, appended, discarded>>
    /\ UNCHANGED <<storeVars, appVars, pollVars, pureVars>>

\* stop_recording, line 101: with self._lock
stop_recording_acquire ==
    /\ callerPc = "stop_collect"
    /\ lock = "free"
    /\ lock' = "caller"
    /\ callerPc' = "stop_locked"
    /\ UNCHANGED <<is_recording, is_paused, audio_data, stream, cbPc, cbChunk,
                   chunkCount, expected, pausedChunks, resumed,
                   resumedChunks, recRet>>
    /\ UNCHANGED <<arrived, appended, discarded>>
    /\ UNCHANGED <<storeVars, appVars, pollVars, pureVars>>

\* stop_recording without line 107: the buffer is not cleared
stop_recording_collect_keep_buffer ==
    /\ callerPc = "stop_locked"
    /\ lock' = "free"
    /\ recRet' = [recRet EXCEPT !.val = audio_data, !.null = (audio_data = <<>>)]
    /\ audio_data' = audio_data
    /\ callerPc' = "idle"
    /\ UNCHANGED <<is_recording, is_paused, stream, cbPc, cbChunk,
                   chunkCount, expected, pausedChunks, resumed,
                   resumedChunks>>
    /\ UNCHANGED <<arrived, appended, discarded>>
    /\ UNCHANGED <<storeVars, appVars, pollVars, pureVars>>

\* stop_recording, lines 102-108: under the lock, None if the buffer is
\* empty, else the concatenation of the chunks, and the buffer is cleared;
\* leaving the with block releases the lock
stop_recording_collect ==
    /\ callerPc = "stop_locked"
    /\ lock' = "free"
    /\ recRet' = [recRet EXCEPT !.val = audio_data, !.null = (audio_data = <<>>)]
    /\ audio_data' = <<>>
    /\ callerPc' = "idle"
    /\ UNCHANGED <<is_recording, is_paused, stream, cbPc, cbChunk,
                   chunkCount, expected, pausedChunks, resumed,
                   resumedChunks>>
    /\ UNCHANGED <<arrived, appended, discarded>>
    /\ UNCHANGED <<storeVars, appVars, pollVars, pureVars>>

\* clear_audio that also ends a pause
clear_audio_unpause ==
    /\ callerPc = "idle"
    /\ lock = "free"
    /\ audio_data' = <<>>
    /\ is_paused' = FALSE
    /\ recRet' = Returned("clear", is_recording)
    /\ UNCHANGED <<is_recording, stream, lock, callerPc, cbPc,
                   cbChunk, chunkCount, expected, pausedChunks, resumed,
                   resumedChunks>>
    /\ discarded' = discarded \cup {audio_data[i] : i \in 1 .. Len(audio_data)}
    /\ UNCHANGED <<arrived, appended>>
    /\ UNCHANGED <<storeVars, appVars, pollVars, pureVars>>

\* clear_audio, lines 164-165
clear_audio ==
    /\ callerPc = "idle"
    /\ lock = "free"
    /\ audio_data' = <<>>
    /\ recRet' = Returned("clear", is_recording)
    /\ UNCHANGED <<is_recording, is_paused, stream, lock, callerPc, cbPc,
                   cbChunk, chunkCount, expected, pausedChunks, resumed,
                   resumedChunks>>
    /\ discarded' = discarded \cup {audio_data[i] : i \in 1 .. Len(audio_data)}
    /\ UNCHANGED <<arrived, appended>>
    /\ UNCHANGED <<storeVars, appVars, pollVars, pureVars>>

-----------------------------------------------------------------------------
(* Capture Buffer: the audio callback, on the stream's thread *)

\* the stream invokes audio_callback(indata, ...) with the next chunk
audio_callback_invoke ==
    /\ stream = "Active"
    /\ cbPc = "idle"
    /\ chunkCount < MaxChunks
    /\ chunkCount' = chunkCount + 1
    /\ cbChunk' = chunkCount + 1
    /\ cbPc' = "read_recording"
    /\ expected' = IF is_recording /\ ~is_paused
                   THEN Append(expected, chunkCount + 1) ELSE expected
    /\ pausedChunks' = IF is_recording /\ is_paused
                       THEN pausedChunks \cup {chunkCount + 1} ELSE pausedChunks
    /\ resumedChunks' = IF is_recording /\ ~is_paused /\ resumed
                        THEN resumedChunks \cup {chunkCount + 1}
                        ELSE resumedChunks
    /\ UNCHANGED <<is_recording, is_paused, audio_data, stream, lock, callerPc,
                   resumed, recRet>>
    /\ arrived' = arrived \cup {chunkCount + 1}
    /\ UNCHANGED <<appended, discarded>>
    /\ UNCHANGED <<storeVars, appVars, pollVars, pureVars>>

\* line 56, left operand: self.is_recording
audio_callback_read_recording ==
    /\ cbPc = "read_recording"
    /\ cbPc' = IF is_recording THEN "read_paused" ELSE "idle"
    /\ cbChunk' = IF is_recording THEN cbChunk ELSE 0
    /\ UNCHANGED <<is_recording, is_paused, audio_data, stream, lock, callerPc,
                   chunkCount, expected, pausedChunks, resumed,
                   resumedChunks, recRet>>
    /\ UNCHANGED <<arrived, appended, discarded>>
    /\ UNCHANGED <<storeVars, appVars, pollVars, pureVars>>

\* line 56, right operand: not self.is_paused
audio_callback_read_paused ==
    /\ cbPc = "read_paused"
    /\ cbPc' = IF ~is_paused THEN "acquire" ELSE "idle"
    /\ cbChunk' = IF ~is_paused THEN cbChunk ELSE 0
    /\ UNCHANGED <<is_recording, is_paused, audio_data, stream, lock, callerPc,
                   chunkCount, expected, pausedChunks, resumed,
                   resumedChunks, recRet>>
    /\ UNCHANGED <<arrived, appended, discarded>>
    /\ UNCHANGED <<storeVars, appVars, pollVars, pureVars>>

\* line 57: with self._lock
audio_callback_acquire ==
    /\ cbPc = "acquire"
    /\ lock = "free"
    /\ lock' = "callback"
    /\ cbPc' = "append"
    /\ UNCHANGED <<is_recording, is_paused, audio_data, stream, callerPc,
                   cbChunk, chunkCount, expected, pausedChunks, resumed,
                   resumedChunks, recRet>>
    /\ UNCHANGED <<arrived, appended, discarded>>
    /\ UNCHANGED <<storeVars, appVars, pollVars, pureVars>>

\* line 58: self._audio_data.append(indata.copy()), and the lock is released;
\* line 61: if self._level_callback (only set_level_callback writes it, and
\* that call commutes with the append, so the read is taken here)
audio_callback_append ==
    /\ cbPc = "append"
    /\ audio_data' = Append(audio_data, cbChunk)
    /\ lock' = "free"
    /\ cbPc' = IF level_callback THEN "level" ELSE "idle"
    /\ cbChunk' = IF level_callback THEN cbChunk ELSE 0
    /\ UNCHANGED <<is_recording, is_paused, stream, callerPc, chunkCount,
                   expected, pausedChunks, resumed,
                   resumedChunks, recRet>>
    /\ appended' = appended \cup {cbChunk}
    /\ UNCHANGED <<arrived, discarded>>
    /\ UNCHANGED <<storeVars, appVars, pollVars, pureVars>>

-----------------------------------------------------------------------------
(* Capture Buffer: level monitoring and the queries of the buffer.  The    *)
(* stream is opened without a blocksize, so the chunks it delivers differ  *)
(* in length.  A duration is given by its number of frames; the method     *)
(* divides that number by self.sample_rate.                                *)

\* len(indata) of chunk c
Frames(c) == IF c % 2 = 1 THEN 1 ELSE 2

RECURSIVE SumFrames(_)
\* len(np.concatenate(buffer, axis=0))
SumFrames(buffer) ==
    IF buffer = <<>> THEN 0
    ELSE Frames(Head(buffer)) + SumFrames(Tail(buffer))

\* get_duration() that takes the number of chunks for the number of frames
get_duration_count_chunks(buffer) == Len(buffer)

\* get_duration(), lines 142-151, of the live buffer: frames (the result
\* is frames / self.sample_rate)
get_duration(buffer) ==
    IF buffer = <<>> THEN 0 ELSE SumFrames(buffer)

\* has_audio_data, line 160
has_audio_data(buffer) == Len(buffer) > 0

NoPoll == [op |-> "none", frames |-> 0, has |-> FALSE]

\* set_level_callback, line 35
set_level_callback ==
    /\ callerPc = "idle"
    /\ level_callback' = TRUE
    /\ UNCHANGED durRet
    /\ UNCHANGED <<storeVars, recVars, appVars, pureVars>>

\* lines 62-63: the level callback is called, outside the with block, and
\* returns
audio_callback_level ==
    /\ cbPc = "level"
    /\ cbPc' = "idle"
    /\ cbChunk' = 0
    /\ UNCHANGED <<is_recording, is_paused, audio_data, stream, lock, callerPc,
                   chunkCount, expected, pausedChunks, resumed,
                   resumedChunks, recRet>>
    /\ UNCHANGED <<arrived, appended, discarded>>
    /\ UNCHANGED <<storeVars, appVars, pollVars, pureVars>>

\* _timer_loop (main.py, line 1209): self.audio_recorder.get_duration(), on
\* the timer thread; lines 143-146 run under the lock
timer_loop_get_duration ==
    /\ lock = "free"
    /\ durRet' = [op |-> "get_duration", frames |-> get_duration(audio_data),
                  has |-> FALSE]
    /\ UNCHANGED level_callback
    /\ UNCHANGED <<storeVars, recVars, appVars, pureVars>>

\* has_audio_data() called from any thread; lines 159-160 run under the lock
call_has_audio_data ==
    /\ lock = "free"
    /\ durRet' = [op |-> "has_audio_data", frames |-> 0,
                  has |-> has_audio_data(audio_data)]
    /\ UNCHANGED level_callback
    /\ UNCHANGED <<storeVars, recVars, appVars, pureVars>>

-----------------------------------------------------------------------------
(* Validators (utils/validators.py).  A waveform is None (present = FALSE) *)
(* or an array of `frames` frames whose peak absolute amplitude is `peak`, *)
(* in units of 1/10000.  A text is `lead` whitespace characters followed   *)
(* by `body` characters that begin and end with a non-whitespace one.      *)

\* validate_audio_data, line 60: max_amplitude < 0.001, in units of 1/10000
SilenceThreshold == 10

\* validate_text_content, line 78: len(text.strip()) < 10
MinTextLen == 10

NoAudio == [present |-> FALSE, frames |-> 0, peak |-> 0]

\* what stop_recording returns to a front-end: None, or a waveform of at
\* least one chunk, silent or not
StopResults ==
    {NoAudio} \cup [present : {TRUE}, frames : {1},
                    peak : {SilenceThreshold - 1, SilenceThreshold}]

TextValues == [lead : 0 .. 1, body : {0, MinTextLen - 1, MinTextLen}]

\* text.strip()
Strip(text) == [lead |-> 0, body |-> text.body]

\* len(text)
TextLen(text) == text.lead + text.body

\* not text or not text.strip()
Blank(text) == TextLen(text) = 0 \/ TextLen(Strip(text)) = 0

\* validate_audio_data whose line 60 compares with <=
validate_audio_data_inclusive(waveform) ==
    IF ~waveform.present
    THEN [ok |-> FALSE, error |-> "No audio data recorded"]
    ELSE IF waveform.frames = 0
    THEN [ok |-> FALSE, error |-> "Audio recording is empty"]
    ELSE IF waveform.peak <= SilenceThreshold
    THEN [ok |-> FALSE, error |-> "Audio appears to be silent"]
    ELSE [ok |-> TRUE, error |-> "None"]

\* Validators.validate_audio_data
validate_audio_data(waveform) ==
    IF ~waveform.present
    THEN [ok |-> FALSE, error |-> "No audio data recorded"]
    ELSE IF waveform.frames = 0
    THEN [ok |-> FALSE, error |-> "Audio recording is empty"]
    ELSE IF waveform.peak < SilenceThreshold
    THEN [ok |-> FALSE, error |-> "Audio appears to be silent"]
    ELSE [ok |-> TRUE, error |-> "None"]

\* validate_text_content whose line 78 compares with <=
validate_text_content_exclusive(text) ==
    IF Blank(text)
    THEN [ok |-> FALSE, error |-> "Text content is empty"]
    ELSE IF TextLen(Strip(text)) <= MinTextLen
    THEN [ok |-> FALSE, error |-> "Text is too short"]
    ELSE [ok |-> TRUE, error |-> "None"]

\* Validators.validate_text_content
validate_text_content(text) ==
    IF Blank(text)
    THEN [ok |-> FALSE, error |-> "Text content is empty"]
    ELSE IF TextLen(Strip(text)) < MinTextLen
    THEN [ok |-> FALSE, error |-> "Text is too short"]
    ELSE [ok |-> TRUE, error |-> "None"]

\* validate_sample that validates the text first
validate_sample_text_first(waveform, text) ==
    IF ~validate_text_content(text).ok THEN validate_text_content(text)
    ELSE IF ~validate_audio_data(waveform).ok THEN validate_audio_data(waveform)
    ELSE [ok |-> TRUE, error |-> "None"]

\* Validators.validate_sample
validate_sample(waveform, text) ==
    IF ~validate_audio_data(waveform).ok THEN validate_audio_data(waveform)
    ELSE IF ~validate_text_content(text).ok THEN validate_text_content(text)
    ELSE [ok |-> TRUE, error |-> "None"]

-----------------------------------------------------------------------------
(* Validators called on arrays of samples.  An array is None (present =    *)
(* FALSE) or a sequence of samples, each an amplitude in units of 1/10000. *)

MaxSamples == 3

None == [present |-> FALSE, samples |-> <<>>]

\* amplitudes on both sides of the silence threshold, of either sign
SampleValues ==
    {-SilenceThreshold, 1 - SilenceThreshold, 0,
     SilenceThreshold - 1, SilenceThreshold}

Arrays ==
    {None} \cup [present : {TRUE}, samples : SeqsUpTo(SampleValues, MaxSamples)]

\* abs(x)
Abs(x) == IF x < 0 THEN -x ELSE x

RECURSIVE AbsMax(_)
\* np.abs(audio_data).max(), of a non-empty array
AbsMax(samples) ==
    IF Len(samples) = 1 THEN Abs(Head(samples))
    ELSE Max({Abs(Head(samples)), AbsMax(Tail(samples))})

\* what validate_audio_data reads of its argument: whether it is None,
\* len(audio_data), and np.abs(audio_data).max() when it is computed
WaveformOf(array) ==
    IF ~array.present THEN NoAudio
    ELSE [present |-> TRUE, frames |-> Len(array.samples),
          peak |-> IF Len(array.samples) = 0 THEN 0
                   ELSE AbsMax(array.samples)]

RECURSIVE CountSilent(_, _, _, _)
\* detect_long_silence, lines 167-175: the loop over is_silent, from the
\* values of current_silent and max_silent_samples
CountSilent(samples, threshold, current_silent, max_silent_samples) ==
    IF samples = <<>> THEN max_silent_samples
    ELSE IF Abs(Head(samples)) < threshold
    THEN CountSilent(Tail(samples), threshold, current_silent + 1,
                     Max({max_silent_samples, current_silent + 1}))
    ELSE CountSilent(Tail(samples), threshold, 0, max_silent_samples)

\* detect_long_silence whose last comparison is strict
detect_long_silence_strict(array, threshold, min_duration, sample_rate) ==
    IF ~array.present \/ Len(array.samples) = 0 THEN FALSE
    ELSE CountSilent(array.samples, threshold, 0, 0)
           > min_duration * sample_rate

\* Validators.detect_long_silence; max_silent_samples / sample_rate >=
\* min_duration is compared after multiplying both sides by sample_rate
detect_long_silence(array, threshold, min_duration, sample_rate) ==
    IF ~array.present \/ Len(array.samples) = 0 THEN FALSE
    ELSE CountSilent(array.samples, threshold, 0, 0)
           >= min_duration * sample_rate

\* the thresholds, minimum durations (seconds) and sample rates (Hz) of the
\* detect_long_silence calls
Thresholds == {SilenceThreshold - 1, SilenceThreshold}
MinDurations == {1, 2}
SampleRates == {1, 2}

\* the arguments of the validator calls
ValInputs ==
    [array : Arrays, text : TextValues, threshold : Thresholds,
     min_duration : MinDurations, sample_rate : SampleRates]

NoValIn ==
    [array |-> None, text |-> [lead |-> 0, body |-> 0],
     threshold |-> SilenceThreshold,
     min_duration |-> 1, sample_rate |-> 1]

NoValCall == [fn |-> "none", ok |-> FALSE, error |-> "None"]

\* Validators.validate_audio_data(audio_data) is called
call_validate_audio_data ==
    /\ \E r \in {validate_audio_data(WaveformOf(valIn.array))} :
         valRet' = [fn |-> "validate_audio_data", ok |-> r.ok, error |-> r.error]
    /\ UNCHANGED <<valIn, queryRet, genVars>>
    /\ UNCHANGED <<storeVars, recVars, appVars, pollVars>>

\* Validators.validate_text_content(text) is called
call_validate_text_content ==
    /\ \E r \in {validate_text_content(valIn.text)} :
         valRet' = [fn |-> "validate_text_content", ok |-> r.ok, error |-> r.error]
    /\ UNCHANGED <<valIn, queryRet, genVars>>
    /\ UNCHANGED <<storeVars, recVars, appVars, pollVars>>

\* Validators.validate_sample(audio_data, text) is called
call_validate_sample ==
    /\ \E r \in {validate_sample(WaveformOf(valIn.array), valIn.text)} :
         valRet' = [fn |-> "validate_sample", ok |-> r.ok, error |-> r.error]
    /\ UNCHANGED <<valIn, queryRet, genVars>>
    /\ UNCHANGED <<storeVars, recVars, appVars, pollVars>>

\* Validators.detect_long_silence(audio_data, threshold, min_duration,
\* sample_rate) is called
call_detect_long_silence ==
    /\ valRet' = [fn |-> "detect_long_silence",
                  ok |-> detect_long_silence(valIn.array, valIn.threshold,
                                             valIn.min_duration,
                                             valIn.sample_rate),
                  error |-> "None"]
    /\ UNCHANGED <<valIn, queryRet, genVars>>
    /\ UNCHANGED <<storeVars, recVars, appVars, pollVars>>

-----------------------------------------------------------------------------
(* The front-ends: start, stop, save *)

\* what the calls a save action makes do: save_audio returning False, the
\* disk-space check failing (Qt), the store returning (False, error)
SaveEnvs == {"ok", "audio_write_fails", "no_space", "store_fails"}

NoText == [lead |-> 0, body |-> 0]

\* ConfigManager.DEFAULTS["sample_rate"]
DefaultSampleRate == 44100

\* the sample rates a settings dialog may set
SettingsRates == {16000, DefaultSampleRate}

\* a front-end and its recorder: sample_rate is AudioRecorder.sample_rate;
\* history: stream_rate, the rate the last stream was opened at (0: none),
\* take_rate, the stream_rate of the recording current_audio came from,
\* deleted, the delete-recording action has removed a take and no recording
\* has been stopped since
FrontEndInit ==
    [current_audio |-> NoAudio, text |-> NoText, capturing |-> FALSE,
     sample_rate |-> DefaultSampleRate, stream_rate |-> 0, take_rate |-> 0,
     deleted |-> FALSE]

\* the Qt front-end: current_audio is MainWindow.current_audio, panel_audio
\* is RecordingPanel.current_audio
QtInit ==
    [current_audio |-> NoAudio, text |-> NoText, capturing |-> FALSE,
     sample_rate |-> DefaultSampleRate, stream_rate |-> 0, take_rate |-> 0,
     deleted |-> FALSE, panel_audio |-> NoAudio]

NoUiCall ==
    [ui |-> "none", op |-> "none", outcome |-> "none",
     wasConfigured |-> FALSE, audio |-> NoAudio, text |-> NoText,
     sample_rate |-> 0, take_rate |-> 0, deleted |-> FALSE]

\* the record of a front-end action: outcome says how it ended, audio and
\* text are what it handed to SampleManager.save_sample (outcomes "stored"
\* and "store_failed"), wasConfigured is is_configured() when it began
UiRet(ui, op, outcome, audio, text) ==
    [NoUiCall EXCEPT !.ui = ui, !.op = op, !.outcome = outcome,
                     !.wasConfigured = configured, !.audio = audio,
                     !.text = text]

\* the record of a save action of front-end fe: sample_rate is the rate
\* save_audio writes the file with
SaveRet(ui, fe, outcome, text) ==
    [UiRet(ui, "save", outcome, fe.current_audio, text) EXCEPT
        !.sample_rate = fe.sample_rate,
        !.take_rate = fe.take_rate,
        !.deleted = fe.deleted]

\* the outcomes in which a sample was handed to the Sample Store
Handed == {"stored", "store_failed"}

\* ConfigManager.set_base_path, from a settings dialog
set_base_path ==
    /\ configured' = TRUE
    /\ uiRet' = UiRet("settings", "set_base_path", "done", NoAudio, NoText)
    /\ UNCHANGED <<flet, qt>>
    /\ UNCHANGED <<storeVars, recVars, pollVars, pureVars>>

\* the user edits the text of the Flet application
flet_edit_text ==
    /\ \E t \in TextValues : flet' = [flet EXCEPT !.text = t]
    /\ UNCHANGED <<configured, qt, uiRet>>
    /\ UNCHANGED <<storeVars, recVars, pollVars, pureVars>>

\* the user edits the text of the Qt application
qt_edit_text ==
    /\ \E t \in TextValues : qt' = [qt EXCEPT !.text = t]
    /\ UNCHANGED <<configured, flet, uiRet>>
    /\ UNCHANGED <<storeVars, recVars, pollVars, pureVars>>

\* VoiceTrainingApp.start_recording (main.py)
flet_start_recording ==
    /\ IF ~configured
       THEN /\ uiRet' = UiRet("flet", "start", "not_configured", NoAudio, NoText)
            /\ UNCHANGED flet
       ELSE /\ flet' = [flet EXCEPT !.capturing = TRUE,
                                    !.stream_rate = flet.sample_rate]
            /\ uiRet' = UiRet("flet", "start", "started", NoAudio, NoText)
    /\ UNCHANGED <<configured, qt>>
    /\ UNCHANGED <<storeVars, recVars, pollVars, pureVars>>

\* RecordingPanel.start_recording (ui/recording_panel.py)
qt_start_recording ==
    /\ qt' = [qt EXCEPT !.capturing = TRUE, !.stream_rate = qt.sample_rate]
    /\ uiRet' = UiRet("qt", "start", "started", NoAudio, NoText)
    /\ UNCHANGED <<configured, flet>>
    /\ UNCHANGED <<storeVars, recVars, pollVars, pureVars>>

\* VoiceTrainingApp.stop_recording: a null or empty result leaves
\* current_audio as it was
flet_stop_recording ==
    /\ flet.capturing
    /\ \E audio \in StopResults :
         /\ flet' = [flet EXCEPT
                       !.capturing = FALSE,
                       !.deleted = FALSE,
                       !.current_audio = IF ~audio.present \/ audio.frames = 0
                                         THEN @ ELSE audio,
                       !.take_rate = IF ~audio.present \/ audio.frames = 0
                                     THEN @ ELSE flet.stream_rate]
         /\ uiRet' = UiRet("flet", "stop", "stopped", NoAudio, NoText)
    /\ UNCHANGED <<configured, qt>>
    /\ UNCHANGED <<storeVars, recVars, pollVars, pureVars>>

\* RecordingPanel.stop_recording, and MainWindow.on_recording_finished when
\* the result is not None
qt_stop_recording ==
    /\ qt.capturing
    /\ \E audio \in StopResults :
         /\ qt' = [qt EXCEPT
                     !.capturing = FALSE,
                     !.deleted = FALSE,
                     !.panel_audio = audio,
                     !.current_audio = IF ~audio.present THEN @ ELSE audio,
                     !.take_rate = IF ~audio.present THEN @
                                   ELSE qt.stream_rate]
         /\ uiRet' = UiRet("qt", "stop", "stopped", NoAudio, NoText)
    /\ UNCHANGED <<configured, flet>>
    /\ UNCHANGED <<storeVars, recVars, pollVars, pureVars>>

\* VoiceTrainingApp.save_sample (main.py); after a successful save
\* new_sample clears the text and the audio
flet_save_sample ==
    /\ \E env \in SaveEnvs \ {"no_space"} :
         LET text == Strip(flet.text)
             ret(outcome) == SaveRet("flet", flet, outcome, text)
         IN IF ~configured
            THEN uiRet' = ret("not_configured") /\ UNCHANGED flet
            ELSE IF ~flet.current_audio.present
            THEN uiRet' = ret("no_recording") /\ UNCHANGED flet
            ELSE IF Blank(flet.text)
            THEN uiRet' = ret("no_text") /\ UNCHANGED flet
            ELSE IF env = "audio_write_fails"
            THEN uiRet' = ret("audio_write_failed") /\ UNCHANGED flet
            ELSE IF env = "store_fails"
            THEN uiRet' = ret("store_failed") /\ UNCHANGED flet
            ELSE /\ uiRet' = ret("stored")
                 /\ flet' = [flet EXCEPT !.text = NoText, !.current_audio = NoAudio]
    /\ UNCHANGED <<configured, qt>>
    /\ UNCHANGED <<storeVars, recVars, pollVars, pureVars>>

\* MainWindow.save_sample (ui/main_window.py)
qt_save_sample ==
    /\ \E env \in SaveEnvs :
         LET text == qt.text
             ret(outcome) == SaveRet("qt", qt, outcome, text)
         IN IF ~configured
            THEN uiRet' = ret("not_configured") /\ UNCHANGED qt
            ELSE IF ~validate_sample(qt.current_audio, text).ok
            THEN uiRet' = ret("invalid") /\ UNCHANGED qt
            ELSE IF env = "no_space"
            THEN uiRet' = ret("no_space") /\ UNCHANGED qt
            ELSE IF env = "audio_write_fails"
            THEN uiRet' = ret("audio_write_failed") /\ UNCHANGED qt
            ELSE IF env = "store_fails"
            THEN uiRet' = ret("store_failed") /\ UNCHANGED qt
            ELSE /\ uiRet' = ret("stored")
                 /\ qt' = [qt EXCEPT !.text = NoText, !.current_audio = NoAudio,
                                      !.panel_audio = NoAudio]
    /\ UNCHANGED <<configured, flet>>
    /\ UNCHANGED <<storeVars, recVars, pollVars, pureVars>>

\* VoiceTrainingApp.delete_recording (main.py)
flet_delete_recording ==
    /\ flet' = [flet EXCEPT !.current_audio = NoAudio,
                            !.deleted = (@ \/ flet.current_audio.present)]
    /\ uiRet' = UiRet("flet", "delete", "deleted", flet.current_audio, NoText)
    /\ UNCHANGED <<configured, qt>>
    /\ UNCHANGED <<storeVars, recVars, pollVars, pureVars>>

\* RecordingPanel.delete_recording and its clear_audio
\* (ui/recording_panel.py): MainWindow is not told
qt_delete_recording ==
    /\ IF qt.panel_audio.present
       THEN /\ qt' = [qt EXCEPT !.panel_audio = NoAudio, !.deleted = TRUE]
            /\ uiRet' = UiRet("qt", "delete", "deleted", qt.panel_audio, NoText)
       ELSE /\ uiRet' = UiRet("qt", "delete", "nothing", NoAudio, NoText)
            /\ UNCHANGED qt
    /\ UNCHANGED <<configured, flet>>
    /\ UNCHANGED <<storeVars, recVars, pollVars, pureVars>>

\* on_save_settings (main.py): the base path if one is entered, and the
\* sample rate, which is also assigned to the recorder
flet_save_settings ==
    /\ \E base \in BOOLEAN, rate \in SettingsRates :
         /\ configured' = (configured \/ base)
         /\ flet' = [flet EXCEPT !.sample_rate = rate]
         /\ uiRet' = UiRet("flet", "settings", "saved", NoAudio, NoText)
    /\ UNCHANGED qt
    /\ UNCHANGED <<storeVars, recVars, pollVars, pureVars>>

\* SettingsDialog.save_settings (a valid base path) and
\* MainWindow.on_settings_changed: the recorder takes the configured rate
qt_save_settings ==
    /\ \E rate \in SettingsRates :
         /\ configured' = TRUE
         /\ qt' = [qt EXCEPT !.sample_rate = rate]
         /\ uiRet' = UiRet("qt", "settings", "saved", NoAudio, NoText)
    /\ UNCHANGED flet
    /\ UNCHANGED <<storeVars, recVars, pollVars, pureVars>>

-----------------------------------------------------------------------------
(* Text generation (llm/generator.py, llm/prompt_builder.py).  A text is a   *)
(* sequence of pieces: "ws" a whitespace character, "dq" a double quote,     *)
(* "sq" a single quote, "w" any other character, or one of the               *)
(* meta-commentary phrases.                                                  *)

\* two of the meta_phrases of clean_generated_text, in the order of the list
MetaPhrases == <<"Certainly!", "Sure!">>

Pieces == {"ws", "dq", "sq", "w"} \cup {MetaPhrases[i] : i \in DOMAIN MetaPhrases}

RECURSIVE lstrip(_)
lstrip(text) ==
    IF text # <<>> /\ Head(text) = "ws" THEN lstrip(Tail(text)) ELSE text

RECURSIVE rstrip(_)
rstrip(text) ==
    IF text # <<>> /\ text[Len(text)] = "ws"
    THEN rstrip(SubSeq(text, 1, Len(text) - 1))
    ELSE text

\* str.strip()
strip(text) == rstrip(lstrip(text))

RECURSIVE remove_meta_phrases(_, _)
\* the for loop of clean_generated_text from phrase i on: each phrase is
\* tried once, in the order of the list
remove_meta_phrases(cleaned, i) ==
    IF i > Len(MetaPhrases) THEN cleaned
    ELSE IF cleaned # <<>> /\ Head(cleaned) = MetaPhrases[i]
         THEN remove_meta_phrases(strip(Tail(cleaned)), i + 1)
         ELSE remove_meta_phrases(cleaned, i + 1)

\* cleaned[1:-1]
Inner(cleaned) == SubSeq(cleaned, 2, Len(cleaned) - 1)

\* PromptBuilder.clean_generated_text
clean_generated_text(text) ==
    LET cleaned == remove_meta_phrases(strip(text), 1)
        unquoted ==
            IF cleaned # <<>> /\ Head(cleaned) = "dq"
                              /\ cleaned[Len(cleaned)] = "dq"
            THEN Inner(cleaned)
            ELSE IF cleaned # <<>> /\ Head(cleaned) = "sq"
                                   /\ cleaned[Len(cleaned)] = "sq"
                 THEN Inner(cleaned)
                 ELSE cleaned
    IN strip(unquoted)

\* None, and a str
NoString == [present |-> FALSE, pieces |-> <<>>]

Str(pieces) == [present |-> TRUE, pieces |-> pieces]

\* the error of a call that succeeded
NoError == "None"

\* what chat.completions.create does: "content", it returns a response
\* whose first choice has this message content (None or a string);
\* "no_choices", the response has no choice; "OpenAIError", it raises one
\* whose message names this code; "Exception", it raises something else
Responses ==
    {[kind |-> "content", content |-> NoString, code |-> "none"]}
    \cup {[kind |-> "content", content |-> Str(t), code |-> "none"] :
             t \in SeqsUpTo(Pieces, MaxResponseLen)}
    \cup {[kind |-> "no_choices", content |-> NoString, code |-> "none"]}
    \cup {[kind |-> "OpenAIError", content |-> NoString, code |-> c] :
             c \in {"insufficient_quota", "invalid_api_key", "rate_limit",
                    "other"}}
    \cup {[kind |-> "Exception", content |-> NoString, code |-> "none"]}

NoResponse == [kind |-> "none", content |-> NoString, code |-> "none"]

\* TextGenerator.generate_text: (generated_text, error_message)
generate_text(response) ==
    CASE response.kind = "content" ->
           IF response.content.present /\ response.content.pieces # <<>>
           THEN [text |-> Str(clean_generated_text(response.content.pieces)),
                 error |-> NoError]
           ELSE [text |-> NoString, error |-> "No text generated"]
      [] response.kind = "OpenAIError" ->
           [text |-> NoString,
            error |-> CASE response.code = "insufficient_quota" ->
                             "Insufficient API credits"
                        [] response.code = "invalid_api_key" ->
                             "Invalid API key"
                        [] response.code = "rate_limit" ->
                             "Rate limit exceeded"
                        [] OTHER -> "API error"]
      [] OTHER -> [text |-> NoString, error |-> "Unexpected error"]

NoGenCall == [called |-> FALSE, text |-> NoString, error |-> NoError]

call_generate_text ==
    /\ ~genRet.called
    /\ \E r \in {generate_text(genIn)} :
         genRet' = [called |-> TRUE, text |-> r.text, error |-> r.error]
    /\ UNCHANGED <<genIn, valIn, valRet, queryRet>>
    /\ UNCHANGED <<storeVars, recVars, appVars, pollVars>>

-----------------------------------------------------------------------------
InitStore ==
    /\ fs = EmptyDir
    /\ given = EmptyDir
    /\ storeRet = NoCall
    /\ freed = {}
    /\ everFailed = FALSE
    /\ faults = 0

InitRecorder ==
    /\ is_recording = FALSE
    /\ is_paused = FALSE
    /\ audio_data = <<>>
    /\ stream = "None"
    /\ lock = "free"
    /\ callerPc = "idle"
    /\ cbPc = "idle"
    /\ cbChunk = 0
    /\ chunkCount = 0
    /\ expected = <<>>
    /\ pausedChunks = {}
    /\ resumed = FALSE
    /\ resumedChunks = {}
    /\ arrived = {}
    /\ appended = {}
    /\ discarded = {}
    /\ recRet = NoRecCall
    /\ durRet = NoPoll
    /\ level_callback = FALSE

InitApp ==
    /\ configured = FALSE
    /\ flet = FrontEndInit
    /\ qt = QtInit
    /\ uiRet = NoUiCall

\* no validator and no dataset query has been called
InitCalls ==
    /\ valRet = NoValCall
    /\ queryRet = NoQuery
    /\ genRet = NoGenCall

Init ==
    /\ InitStore
    /\ InitRecorder
    /\ InitApp
    /\ InitCalls
    /\ valIn = NoValIn
    /\ genIn = NoResponse

\* the queries are called on any dataset
InitQueries ==
    /\ fs \in Datasets
    /\ given = EmptyDir
    /\ storeRet = NoCall
    /\ freed = {}
    /\ everFailed = FALSE
    /\ faults = 0
    /\ InitRecorder
    /\ InitApp
    /\ InitCalls
    /\ valIn = NoValIn
    /\ genIn = NoResponse

\* the store after a first save_sample whose json.dump raised part-way
\* (SpecStore reaches this dataset with one failing call); later calls may
\* fail as well
InitAfterFailedSave ==
    /\ \E r \in {SaveSample(EmptyDir, UsualSave.src, UsualSave.text,
                             UsualSave.meta, [step |-> "meta", part |-> 1])} :
         /\ fs = r.fs
         /\ given = With(EmptyDir, get_sample_folder(r.num),
                         [text |-> UsualSave.text, meta |-> UsualSave.meta,
                          ok |-> r.ok])
         /\ storeRet = [op |-> "save", ok |-> r.ok, num |-> r.num,
                        reused |-> FALSE, failedAt |-> "meta"]
    /\ freed = {}
    /\ everFailed = TRUE
    /\ faults = 0
    /\ InitRecorder
    /\ InitApp
    /\ InitCalls
    /\ valIn = NoValIn
    /\ genIn = NoResponse

\* the validators are called with any arguments
InitValidators ==
    /\ InitStore
    /\ InitRecorder
    /\ InitApp
    /\ InitCalls
    /\ valIn \in ValInputs
    /\ genIn = NoResponse

InitGenerator ==
    /\ InitStore
    /\ InitRecorder
    /\ InitApp
    /\ InitCalls
    /\ valIn = NoValIn
    /\ genIn \in Responses

NextStore == save_sample \/ delete_sample

NextRecorder ==
    \/ start_recording_noop
    \/ start_recording_reset
    \/ start_recording_open
    \/ pause_recording
    \/ resume_recording
    \/ stop_recording_noop
    \/ stop_recording_clear_recording
    \/ stop_recording_clear_paused
    \/ stop_recording_close
    \/ stop_recording_acquire
    \/ stop_recording_collect
    \/ clear_audio
    \/ audio_callback_invoke
    \/ audio_callback_read_recording
    \/ audio_callback_read_paused
    \/ audio_callback_acquire
    \/ audio_callback_append

NextMonitor ==
    \/ NextRecorder
    \/ set_level_callback
    \/ audio_callback_level
    \/ timer_loop_get_duration
    \/ call_has_audio_data

NextValidators ==
    \/ call_validate_audio_data
    \/ call_validate_text_content
    \/ call_validate_sample
    \/ call_detect_long_silence

NextQueries ==
    \/ call_estimate_total_duration
    \/ call_get_all_samples

NextGenerator == call_generate_text

NextApp ==
    \/ set_base_path
    \/ flet_edit_text
    \/ qt_edit_text
    \/ flet_start_recording
    \/ qt_start_recording
    \/ flet_stop_recording
    \/ qt_stop_recording
    \/ flet_save_sample
    \/ qt_save_sample

\* the Flet application, with its delete and settings actions
NextFlet ==
    \/ flet_edit_text
    \/ flet_start_recording
    \/ flet_stop_recording
    \/ flet_save_sample
    \/ flet_delete_recording
    \/ flet_save_settings

\* the Qt application, with its delete and settings actions
NextQt ==
    \/ qt_edit_text
    \/ qt_start_recording
    \/ qt_stop_recording
    \/ qt_save_sample
    \/ qt_delete_recording
    \/ qt_save_settings

Next ==
    \/ NextGenerator
    \/ NextFlet
    \/ NextQt
    \/ NextStore
    \/ NextMonitor
    \/ NextApp
    \/ NextValidators
    \/ NextQueries

\* the Sample Store alone
SpecStore == Init /\ [][NextStore]_vars

\* the Capture Buffer alone
SpecRecorder == Init /\ [][NextRecorder]_vars

\* the front-ends alone
\* the Capture Buffer with level monitoring and the queries of the buffer
SpecMonitor == Init /\ [][NextMonitor]_vars

\* the stream's thread runs a callback it has invoked to its end, and the
\* caller's thread runs a stop_recording it has begun to its end
CallbackRuns ==
    \/ audio_callback_read_recording
    \/ audio_callback_read_paused
    \/ audio_callback_acquire
    \/ audio_callback_append
    \/ audio_callback_level

StopRuns ==
    \/ stop_recording_clear_paused
    \/ stop_recording_close
    \/ stop_recording_acquire
    \/ stop_recording_collect

SpecMonitorLive ==
    Init /\ [][NextMonitor]_vars /\ WF_vars(CallbackRuns) /\ WF_vars(StopRuns)

\* the Validators alone
SpecValidators == InitValidators /\ [][NextValidators]_vars

\* the dataset queries alone
SpecQueries == InitQueries /\ [][NextQueries]_vars

\* the Sample Store after a failed save
SpecStoreAfterFailedSave == InitAfterFailedSave /\ [][NextStore]_vars

\* save_sample alone, on any dataset
SpecSave == InitQueries /\ [][save_sample]_vars

\* delete_sample alone, on any dataset
SpecDelete == InitQueries /\ [][delete_sample]_vars

SpecGenerator == InitGenerator /\ [][NextGenerator]_vars

SpecFlet == Init /\ [][NextFlet]_vars

SpecQt == Init /\ [][NextQt]_vars

SpecApp == Init /\ [][NextApp]_vars

Spec == Init /\ [][Next]_vars

-----------------------------------------------------------------------------
(* Sample Store: properties *)

\* the existing sample numbers are 1 .. total, each once
Contiguous(f) ==
    /\ NumericDirs(f) = 1 .. get_total_samples(f)
    /\ Cardinality(NumericDirs(f)) = get_total_samples(f)

\* the artifact of kind `kind` of sample `num`: <<its content>>, or <<>>
\* when the folder holds no file of that name
Artifact(f, num, kind) ==
    IF FileName(kind, num) \in Files(f, get_sample_folder(num))
    THEN <<f[get_sample_folder(num)][FileName(kind, num)]>>
    ELSE <<>>

\* C1: after every save_sample and delete_sample call, whatever it returned,
\* the existing sample numbers are exactly 1 .. total_samples.
C1_ContiguousAfterEveryCall == Contiguous(fs)

\* C2: a successful delete_sample(d) on a contiguous dataset 1..N leaves
\* N - 1 samples numbered 1..N-1, and every artifact of each sample k > d is
\* afterwards the artifact of sample k - 1, named for k - 1, with the same
\* content; nothing named for k stays in that folder.
C2_DeleteShiftsDown ==
    [][(storeRet'.op = "delete" /\ storeRet'.ok /\ Contiguous(fs)) =>
         LET d == storeRet'.num
             N == get_total_samples(fs)
         IN /\ get_total_samples(fs') = N - 1
            /\ NumericDirs(fs') = 1 .. (N - 1)
            /\ \A k \in (d + 1) .. N : \A kind \in Kinds :
                 /\ Artifact(fs', k - 1, kind) = Artifact(fs, k, kind)
                 /\ FileName(kind, k) \notin Files(fs', get_sample_folder(k - 1))
      ]_vars

\* C2 witness: samples 2 and 3 of a full dataset have been shifted down by a
\* successful delete_sample(1), and the two shifted samples hold different
\* texts and all three artifacts.
C2_Witness ==
    /\ storeRet.op = "delete" /\ storeRet.ok /\ storeRet.num = 1
    /\ faults = 0
    /\ NumericDirs(fs) = 1 .. (MaxNum - 1)
    /\ Artifact(fs, 1, "txt") # Artifact(fs, 2, "txt")
    /\ \A k \in 1 .. 2 : \A kind \in Kinds : Artifact(fs, k, kind) # <<>>

C4_NextIsTotalPlusOne ==
    get_next_sample_number(fs) = get_total_samples(fs) + 1

\* C5: after successful save_sample and delete_sample calls only, every
\* sample folder holds n.wav and n.txt for its own number n, and no file
\* named for another number.
C5_FoldersHoldOwnArtifacts ==
    ~everFailed =>
        \A folder \in DOMAIN fs :
            /\ FileName("wav", IntOf(folder)) \in DOMAIN fs[folder]
            /\ FileName("txt", IntOf(folder)) \in DOMAIN fs[folder]
            /\ \A file \in DOMAIN fs[folder] : file.num = IntOf(folder)

\* C6: a sample saved successfully with (text, metadata) reads back, under
\* the number it has now, with text_content = text and metadata = the map
\* given, also after deletes of other samples.
C6_SavedSampleReadsBack ==
    \A folder \in DOMAIN given :
        given[folder].ok =>
            LET info == get_sample_info(fs, IntOf(folder))
            IN /\ info.found /\ ~info.raised
               /\ info.has_text
               /\ info.text_content = given[folder].text
               /\ given[folder].meta.given =>
                    /\ info.has_metadata
                    /\ info.metadata = given[folder].meta.map

\* C18: a save_sample call that returns (False, error) leaves the folder
\* and every file of every sample that existed before the call unchanged.
C18_FailedSaveKeepsOtherSamples ==
    [][(storeRet'.op = "save" /\ ~storeRet'.ok) =>
         \A folder \in DOMAIN fs :
             folder \in DOMAIN fs' /\ fs'[folder] = fs[folder]
      ]_vars

\* C18 witness: a save_sample call has failed after creating its folder,
\* beside an earlier sample that holds its audio and text.
C18_Witness ==
    /\ storeRet.op = "save" /\ ~storeRet.ok /\ storeRet.num = 2
    /\ get_sample_folder(2) \in DOMAIN fs
    /\ Artifact(fs, 1, "wav") # <<>> /\ Artifact(fs, 1, "txt") # <<>>

\* C19: delete_sample(n) for a number whose folder does not exist returns
\* (False, error) and changes nothing in the dataset.
C19_DeleteMissingChangesNothing ==
    [][(storeRet'.op = "delete"
          /\ get_sample_folder(storeRet'.num) \notin DOMAIN fs) =>
         (~storeRet'.ok /\ fs' = fs)
      ]_vars

\* C19 witness: delete_sample was called, in a dataset that holds samples,
\* for a number that has no folder, and no filesystem call failed.
C19_Witness ==
    /\ storeRet.op = "delete" /\ ~storeRet.ok /\ faults = 0
    /\ NumericDirs(fs) # {}
    /\ storeRet.num \notin NumericDirs(fs)

\* C20: delete_sample(d), whatever it returns, leaves the folder and every
\* file of every sample numbered below d as they were.
C20_DeleteKeepsLowerSamples ==
    [][storeRet'.op = "delete" =>
         \A k \in 1 .. (storeRet'.num - 1) :
             get_sample_folder(k) \in DOMAIN fs =>
                 /\ get_sample_folder(k) \in DOMAIN fs'
                 /\ fs'[get_sample_folder(k)] = fs[get_sample_folder(k)]
      ]_vars

\* C20 witness: delete_sample(2) has succeeded on a full dataset: sample 3
\* was shifted down and sample 1 is still there.
C20_Witness ==
    /\ storeRet.op = "delete" /\ storeRet.ok /\ storeRet.num = 2
    /\ NumericDirs(fs) = 1 .. (MaxNum - 1)
    /\ Artifact(fs, 1, "wav") # <<>>

\* C21: after a successful save_sample, get_sample_info of the new sample
\* reports has_metadata = true exactly when a metadata map (any map, also
\* an empty one) was given, and false when metadata was None.
C21_MetadataWrittenIffGiven ==
    [][(storeRet'.op = "save" /\ storeRet'.ok) =>
         (get_sample_info(fs', storeRet'.num).has_metadata
            <=> given'[get_sample_folder(storeRet'.num)].meta.given)
      ]_vars

\* the samples whose audio file exists and is readable
ReadableSamples(f) ==
    {n \in NumericDirs(f) :
        /\ FileName("wav", n) \in Files(f, get_sample_folder(n))
        /\ f[get_sample_folder(n)][FileName("wav", n)] # "corrupt"}

RECURSIVE SumOfDurations(_, _)
\* the sum of the durations of the audio files of the samples S, in seconds
SumOfDurations(f, S) ==
    IF S = {} THEN 0
    ELSE Duration(f[get_sample_folder(Max(S))][FileName("wav", Max(S))])
           + SumOfDurations(f, S \ {Max(S)})

\* C29: estimate_total_duration returns the sum of the durations of the
\* audio files that exist and are readable, divided by 60; samples whose
\* audio file is missing or corrupt add nothing and do not abort the sum; the
\* result is 0 for an empty dataset and is the same for every sample_rate.
C29_TotalIsSumOfReadable ==
    queryRet.op = "estimate_total_duration" =>
        /\ queryRet.minutes.num * 60
              = SumOfDurations(fs, ReadableSamples(fs)) * queryRet.minutes.den
        /\ fs = EmptyDir => queryRet.minutes.num = 0
        /\ \A sample_rate \in RateArguments :
              estimate_total_duration(fs, sample_rate) = queryRet.minutes

\* C29 witness: the total of a dataset with a readable, a corrupt and a
\* missing audio file has been computed, and is that of the readable one.
C29_Witness ==
    /\ queryRet.op = "estimate_total_duration"
    /\ Cardinality(ReadableSamples(fs)) = 1
    /\ \E n \in NumericDirs(fs) : Files(fs, get_sample_folder(n)) = {}
    /\ \E n \in NumericDirs(fs) :
          /\ FileName("wav", n) \in Files(fs, get_sample_folder(n))
          /\ fs[get_sample_folder(n)][FileName("wav", n)] = "corrupt"
    /\ queryRet.minutes.num > 0

\* C30: in every reachable state of the dataset get_all_samples returns one
\* record for every numeric sample folder and no other, in strictly
\* ascending order of number, so its length is get_total_samples().
C30_AllSamplesOnePerFolder ==
    /\ ~get_all_samples(fs).raised
    /\ Len(get_all_samples(fs).samples) = get_total_samples(fs)
    /\ [i \in 1 .. Len(get_all_samples(fs).samples) |->
          get_all_samples(fs).samples[i].number] = SortedSeq(NumericDirs(fs))

\* the renames of the renumbering pass of delete_sample(sample_num) on f
RenumberingLog(f, g, sample_num, fault) ==
    RenameLog([fs |-> Without(f, get_sample_folder(sample_num)),
               given |-> Without(g, get_sample_folder(sample_num)),
               ok |-> TRUE],
              SubsequentSamples(Without(f, get_sample_folder(sample_num)),
                                sample_num),
              fault)

\* C32: the renumbering pass of delete_sample renames the folders in
\* ascending order of old number and, when folder k is renamed to k-1, no
\* folder k-1 exists: no rename collides with or overwrites another sample,
\* in a contiguous dataset and in one with gaps.
C32_RenumberingNeverCollides ==
    [][(delete_sample /\ FolderExists(fs, get_sample_folder(storeRet'.num))) =>
         /\ \A fault \in DeleteFaults(fs, storeRet'.num) :
               fault.step # "rmtree" =>
                 \A i \in 1 .. Len(RenumberingLog(fs, given, storeRet'.num, fault)) :
                    /\ ~RenumberingLog(fs, given, storeRet'.num, fault)[i].target_exists
                    /\ i > 1 =>
                         RenumberingLog(fs, given, storeRet'.num, fault)[i - 1].old_num
                           < RenumberingLog(fs, given, storeRet'.num, fault)[i].old_num
         /\ faults' = faults =>
               /\ storeRet'.ok
               /\ Cardinality(DOMAIN fs') = Cardinality(DOMAIN fs) - 1
      ]_vars

\* C32 witness: delete_sample has succeeded and renamed a folder of a
\* dataset with a gap (the folder below a renamed one is still missing).
C32_Witness ==
    /\ storeRet.op = "delete" /\ storeRet.ok
    /\ \E n \in NumericDirs(fs) :
          n > storeRet.num /\ n - 1 \notin NumericDirs(fs)

\* C33: after a save_sample that failed at the audio move (after the text
\* write), the incomplete folder remains: get_total_samples counts it,
\* get_all_samples lists it with has_text true and has_audio false, and the
\* next save_sample takes the number after it.
C33_IncompleteFolderRemainsListed ==
    (storeRet.op = "save" /\ storeRet.failedAt = "audio") =>
        /\ get_sample_folder(storeRet.num) \in DOMAIN fs
        /\ get_total_samples(fs) >= 1
        /\ ~get_all_samples(fs).raised
        /\ \E i \in 1 .. Len(get_all_samples(fs).samples) :
              /\ get_all_samples(fs).samples[i].number = storeRet.num
              /\ get_all_samples(fs).samples[i].has_text
              /\ ~get_all_samples(fs).samples[i].has_audio
        /\ get_next_sample_number(fs) = storeRet.num + 1

\* C34: save_sample never writes into the folder of an existing sample: the
\* number it takes is above the number of every existing numeric folder,
\* also in a dataset with gaps, and every existing folder keeps its files
\* and their contents.
C34_SaveNeverTouchesExistingFolder ==
    [][save_sample =>
         /\ storeRet'.num # 0 =>
               /\ \A n \in NumericDirs(fs) : storeRet'.num > n
               /\ get_sample_folder(storeRet'.num) \notin DOMAIN fs
         /\ \A folder \in DOMAIN fs :
               folder \in DOMAIN fs' /\ fs'[folder] = fs[folder]
      ]_vars

\* C34 witness: a save has succeeded in a dataset with a gap below the
\* number it took.
C34_Witness ==
    /\ storeRet.op = "save" /\ storeRet.ok
    /\ \E n \in 1 .. storeRet.num : n \notin NumericDirs(fs)
    /\ \E n \in NumericDirs(fs) : n < storeRet.num

-----------------------------------------------------------------------------
(* Capture Buffer: properties *)

\* the caller is in no recorder method
CallerIdle == callerPc = "idle"

\* the chunks of a sequence
Range(q) == {q[i] : i \in 1 .. Len(q)}

\* C7: when start_recording has raised (the stream could not be opened or
\* started), the session is idle: not recording, not paused, no stream held.
C7_FailedStartLeavesIdle ==
    (CallerIdle /\ recRet.op = "start" /\ recRet.raised) =>
        (~is_recording /\ ~is_paused /\ stream = "None")

\* C8: start_recording with an available device, called right after a
\* start_recording that raised, opens the stream and leaves the session
\* recording.
C8_StartAfterFailedStartRecords ==
    (CallerIdle /\ recRet.op = "start" /\ recRet.afterFailedStart
                /\ recRet.device = "ok") =>
        (stream = "Active" /\ is_recording /\ ~is_paused)

\* C9: stop_recording returns the concatenation, in arrival order, of
\* exactly the chunks delivered while the session was recording and not
\* paused since the most recent start_recording.
C9_StopReturnsUnpausedChunks ==
    (CallerIdle /\ recRet.op = "stop" /\ recRet.wasRecording) =>
        recRet.val = expected

\* C10: the waveform stop_recording returns holds no chunk delivered between
\* pause_recording and resume_recording, and holds every chunk delivered
\* (while recording) after a resume_recording.
C10_PausedChunksExcluded ==
    (CallerIdle /\ recRet.op = "stop" /\ recRet.wasRecording) =>
        /\ pausedChunks \cap Range(recRet.val) = {}
        /\ resumedChunks \subseteq Range(recRet.val)

\* C11: once stop_recording has returned, the callback of the stopped
\* session is not running and appends nothing (the stream is closed, the
\* buffer stays empty), and every chunk that arrived while the session was
\* recording and not paused is in the waveform returned.
C11_StopIsSafeMidFlight ==
    (CallerIdle /\ recRet.op = "stop" /\ recRet.wasRecording) =>
        /\ cbPc = "idle" /\ stream = "None" /\ audio_data = <<>>
        /\ Range(expected) \subseteq Range(recRet.val)

\* C12: whenever the session is idle (is_recording false) and the caller is
\* in no recorder method, the buffer is empty.
C12_IdleBufferEmpty ==
    (CallerIdle /\ ~is_recording) => audio_data = <<>>

\* C12 witness: a session in which chunks were buffered has been stopped and
\* the session is idle again.
C12_Witness ==
    /\ CallerIdle /\ ~is_recording
    /\ recRet.op = "stop" /\ recRet.wasRecording
    /\ appended # {}

\* C13 as stated: stop_recording called while recording or paused leaves
\* the session idle, the stream released and the buffer empty, and returns
\* null exactly when no chunk was appended during the session.
C13_StopNullIffNothingAppended ==
    (CallerIdle /\ recRet.op = "stop" /\ recRet.wasRecording) =>
        /\ ~is_recording /\ ~is_paused /\ stream = "None" /\ audio_data = <<>>
        /\ recRet.null <=> (appended = {})

\* C13 amended: stop_recording called while recording or paused leaves the
\* session idle, the stream released and the buffer empty; it returns the
\* chunks appended during the session that clear_audio has not removed, and
\* null exactly when there is none.
C13_StopNullIffNothingKept ==
    (CallerIdle /\ recRet.op = "stop" /\ recRet.wasRecording) =>
        /\ ~is_recording /\ ~is_paused /\ stream = "None" /\ audio_data = <<>>
        /\ Range(recRet.val) = appended \ discarded
        /\ recRet.null <=> (appended \subseteq discarded)

\* C13 witness: stop_recording has returned a waveform for a session in
\* which clear_audio removed an earlier chunk.
C13_Witness ==
    /\ CallerIdle /\ recRet.op = "stop" /\ recRet.wasRecording
    /\ ~recRet.null
    /\ discarded # {}

\* C14: a start_recording call made while is_recording is true changes
\* neither the buffer, nor the flags, nor the stream.
C14_StartWhileRecordingIsNoOp ==
    [][(recRet' # recRet /\ recRet'.op = "start" /\ recRet'.wasRecording) =>
         /\ audio_data' = audio_data
         /\ is_recording' = is_recording
         /\ is_paused' = is_paused
         /\ stream' = stream
      ]_vars

\* C14 witness: start_recording has returned at once in a paused session
\* with an open stream and a buffered chunk.
C14_Witness ==
    /\ CallerIdle /\ recRet.op = "start" /\ recRet.wasRecording
    /\ is_paused /\ stream = "Active" /\ audio_data # <<>>

\* C15: pause_recording changes is_paused only from false to true and only
\* in a recording session; resume_recording changes it only from true to
\* false; neither changes is_recording, the stream or the buffer.
C15_PauseResumeOnlyFlipGate ==
    [][(recRet' # recRet /\ recRet'.op \in {"pause", "resume"}) =>
         /\ audio_data' = audio_data
         /\ is_recording' = is_recording
         /\ stream' = stream
         /\ (recRet'.op = "pause" /\ is_paused' # is_paused) =>
               (is_recording /\ ~is_paused /\ is_paused')
         /\ (recRet'.op = "resume" /\ is_paused' # is_paused) =>
               (is_paused /\ ~is_paused')
      ]_vars

\* C15 witness: resume_recording was called in a session that was never
\* paused-and-resumed and is not paused, with a chunk buffered and the
\* stream open: nothing changed.
C15_Witness ==
    /\ CallerIdle /\ recRet.op = "resume" /\ recRet.wasRecording
    /\ ~resumed /\ ~is_paused
    /\ stream = "Active" /\ audio_data # <<>>

\* C24: clear_audio empties the buffer and changes neither is_recording,
\* nor is_paused, nor the stream, whether the session is idle, recording or
\* paused.
C24_ClearOnlyEmptiesBuffer ==
    [][(recRet' # recRet /\ recRet'.op = "clear") =>
         /\ audio_data' = <<>>
         /\ UNCHANGED <<is_recording, is_paused, stream>>
      ]_vars

\* C24 witness: clear_audio has removed a chunk of a paused recording, which
\* is still paused.
C24_Witness ==
    /\ recRet.op = "clear" /\ recRet.wasRecording
    /\ is_recording /\ is_paused /\ stream = "Active"
    /\ discarded # {} /\ audio_data = <<>>

\* C37: whenever no recorder operation is in progress, is_paused implies
\* is_recording: the session is idle, recording or paused, after every
\* sequence of start, pause, resume, stop and clear calls, a failed start
\* included.
C37_PausedImpliesRecording ==
    CallerIdle => (is_paused => is_recording)

\* C37 witness: a session whose start failed (the stream was created but
\* never started) has been paused.
C37_Witness ==
    /\ CallerIdle /\ recRet.op = "pause"
    /\ is_paused /\ is_recording /\ stream = "Created"

\* C31: at the instant the callback appends a chunk to the buffer,
\* is_recording is true and is_paused is false, whatever pause_recording and
\* stop_recording do on the caller's thread.
C31_AppendOnlyWhileRecording ==
    [][(cbPc = "append" /\ Len(audio_data') = Len(audio_data) + 1) =>
         (is_recording /\ ~is_paused)
      ]_vars

\* the positions of the caller inside a stop_recording it has begun
StopPcs == {"stop_paused", "stop_stream", "stop_collect", "stop_locked"}

\* C22: the callback (with its level-callback call), stop_recording,
\* get_duration, has_audio_data and clear_audio never deadlock: the caller
\* holds the buffer lock only in the final collecting block of
\* stop_recording, never while it waits for the stream; the callback holds
\* it only to append, never during the level callback; and a stop_recording
\* that has begun eventually returns.
C22_StopNeverDeadlocks ==
    /\ [](lock = "caller" => callerPc = "stop_locked")
    /\ [](lock = "callback" => cbPc = "append")
    /\ (callerPc \in StopPcs) ~> (callerPc = "idle")

\* C22 witness: stop_recording has returned a waveform in a session whose
\* callback called the level callback, and the buffer was polled on the way.
C22_Witness ==
    /\ CallerIdle /\ recRet.op = "stop" /\ ~recRet.null
    /\ level_callback
    /\ durRet.op = "get_duration" /\ durRet.frames > 0

\* the chunks appended since the last start_recording, in the order of
\* their appending (the stream numbers its chunks in order)
AppendedSeq == SortedSeq(appended)

\* the total lengths of the prefixes of a sequence of chunks
PrefixFrames(q) == {SumFrames(SubSeq(q, 1, k)) : k \in 0 .. Len(q)}

\* C23: get_duration() called during a session returns the frame count of
\* some prefix of the chunks appended so far in the session, and 0 when the
\* buffer is empty.
C23_DurationIsPrefixOfAppended ==
    [][(timer_loop_get_duration /\ is_recording) =>
         /\ durRet'.frames \in PrefixFrames(AppendedSeq)
         /\ audio_data = <<>> => durRet'.frames = 0
      ]_vars

\* C23 amended: get_duration() called during a session returns the total
\* length of the whole chunks appended since the last start_recording that
\* clear_audio has not removed, and 0 exactly when there is none.
C23_DurationIsFramesKept ==
    [][(timer_loop_get_duration /\ is_recording) =>
         /\ durRet'.frames = SumFrames(SortedSeq(appended \ discarded))
         /\ durRet'.frames = 0 <=> appended \subseteq discarded
      ]_vars

\* C23 witness: a duration was read while recording, after an append and
\* while the callback was about to append the next chunk, in a session in
\* which clear_audio removed an earlier chunk.
C23_Witness ==
    /\ is_recording /\ ~is_paused /\ cbPc = "acquire"
    /\ durRet.op = "get_duration" /\ durRet.frames = SumFrames(audio_data)
    /\ durRet.frames > 0
    /\ discarded # {}

-----------------------------------------------------------------------------
(* Validators: properties *)

\* C25: validate_text_content accepts every text of exactly 10 characters,
\* rejects every text of 9 characters, and rejects every empty or
\* whitespace-only text.
C25_TextBoundaryByLength ==
    valRet.fn = "validate_text_content" =>
        /\ valIn.text.lead + valIn.text.body = MinTextLen => valRet.ok
        /\ valIn.text.lead + valIn.text.body = MinTextLen - 1 => ~valRet.ok
        /\ valIn.text.body = 0 => ~valRet.ok

\* C25 amended: validate_text_content accepts every text that has exactly
\* 10 characters once surrounding whitespace is removed, rejects every text
\* that then has 9, and rejects every empty or whitespace-only text.
C25_TextBoundaryByStrippedLength ==
    valRet.fn = "validate_text_content" =>
        /\ valIn.text.body = MinTextLen => valRet.ok
        /\ valIn.text.body = MinTextLen - 1 =>
             ~valRet.ok /\ valRet.error = "Text is too short"
        /\ valIn.text.body = 0 =>
             ~valRet.ok /\ valRet.error = "Text content is empty"

\* C25 witness: a text of 10 characters after one of whitespace was accepted.
C25_Witness ==
    /\ valRet.fn = "validate_text_content" /\ valRet.ok
    /\ valIn.text.lead = 1 /\ valIn.text.body = MinTextLen

\* some sample of the array has an absolute amplitude of at least level
ReachesLevel(array, level) ==
    \E i \in 1 .. Len(array.samples) :
        array.samples[i] >= level \/ array.samples[i] <= -level

\* C26: validate_audio_data fails exactly when the waveform is null, is
\* empty, or has a peak absolute amplitude strictly below the silence
\* threshold: a peak exactly at the threshold passes, one just below fails.
C26_AudioFailsIffBelowThreshold ==
    valRet.fn = "validate_audio_data" =>
        (~valRet.ok <=>
            \/ ~valIn.array.present
            \/ Len(valIn.array.samples) = 0
            \/ ~ReachesLevel(valIn.array, SilenceThreshold))

\* C26 witness: a waveform whose peak is exactly at the threshold, reached
\* by a negative sample, has passed.
C26_Witness ==
    /\ valRet.fn = "validate_audio_data" /\ valRet.ok
    /\ valIn.array.present
    /\ ~ReachesLevel(valIn.array, SilenceThreshold + 1)
    /\ \A i \in 1 .. Len(valIn.array.samples) :
          valIn.array.samples[i] < SilenceThreshold

\* samples i .. j of the array are all below the threshold in absolute value
SilentRun(array, threshold, i, j) ==
    \A k \in i .. j :
        array.samples[k] < threshold /\ array.samples[k] > -threshold

\* the length of the longest run of consecutive samples below the threshold
LongestRun(array, threshold) ==
    Max({n \in 0 .. Len(array.samples) :
           \/ n = 0
           \/ \E i \in 1 .. Len(array.samples) - n + 1 :
                  SilentRun(array, threshold, i, i + n - 1)})

\* C27: detect_long_silence returns true exactly when the longest run of
\* samples below the threshold lasts more than min_duration seconds
\* (run_length / sample_rate > min_duration), and false for a null or empty
\* waveform.
C27_SilenceLongerThanMin ==
    valRet.fn = "detect_long_silence" =>
        (valRet.ok <=>
            /\ valIn.array.present /\ Len(valIn.array.samples) > 0
            /\ LongestRun(valIn.array, valIn.threshold)
                  > valIn.min_duration * valIn.sample_rate)

\* C27 amended: detect_long_silence returns true exactly when the longest
\* run of samples below the threshold lasts at least min_duration seconds
\* (run_length / sample_rate >= min_duration), and false for a null or empty
\* waveform.
C27_SilenceAtLeastMin ==
    valRet.fn = "detect_long_silence" =>
        (valRet.ok <=>
            /\ valIn.array.present /\ Len(valIn.array.samples) > 0
            /\ LongestRun(valIn.array, valIn.threshold)
                  >= valIn.min_duration * valIn.sample_rate)

\* C27 witness: true was returned for a waveform whose longest silent run,
\* which is not the whole waveform, lasts exactly min_duration seconds.
C27_Witness ==
    /\ valRet.fn = "detect_long_silence" /\ valRet.ok
    /\ LongestRun(valIn.array, valIn.threshold)
          = valIn.min_duration * valIn.sample_rate
    /\ LongestRun(valIn.array, valIn.threshold) < Len(valIn.array.samples)

\* C28: validate_sample succeeds exactly when validate_audio_data and
\* validate_text_content both succeed; when it fails it returns the error
\* of the first failing check, audio before text.
C28_SampleIsAudioThenText ==
    valRet.fn = "validate_sample" =>
        /\ valRet.ok <=>
              /\ validate_audio_data(WaveformOf(valIn.array)).ok
              /\ validate_text_content(valIn.text).ok
        /\ ~valRet.ok =>
              valRet.error =
                IF ~validate_audio_data(WaveformOf(valIn.array)).ok
                THEN validate_audio_data(WaveformOf(valIn.array)).error
                ELSE validate_text_content(valIn.text).error

\* C28 witness: with a silent waveform and a text that is too short,
\* validate_sample has returned the audio error.
C28_Witness ==
    /\ valRet.fn = "validate_sample" /\ ~valRet.ok
    /\ ~validate_text_content(valIn.text).ok
    /\ valIn.array.present /\ Len(valIn.array.samples) > 0
    /\ valRet.error = "Audio appears to be silent"

-----------------------------------------------------------------------------
(* The front-ends: properties *)

\* C16: whenever a save action of either front-end has handed a sample to
\* the Sample Store, validate_sample accepts the audio and the text handed
\* over (the audio is neither null, empty nor silent, the text has the
\* minimum length).
C16_SaveOnlyValidatedSamples ==
    (uiRet.op = "save" /\ uiRet.outcome \in Handed) =>
        validate_sample(uiRet.audio, uiRet.text).ok

\* C17: a start-recording or save action of either front-end that begins
\* while no base path is configured ends with the configuration error: it
\* starts no capture and hands no sample to the store.
C17_NoCaptureOrSaveUnconfigured ==
    (uiRet.op \in {"start", "save"} /\ ~uiRet.wasConfigured) =>
        uiRet.outcome = "not_configured"

\* C35: after the delete-recording action and until a recording is stopped
\* again, no save action of either front-end hands the deleted audio to the
\* Sample Store.
C35_DeletedTakeNeverSaved ==
    (uiRet.op = "save" /\ uiRet.deleted) => uiRet.outcome \notin Handed

\* C36: the sample rate a save action writes into the audio file is the
\* rate at which the stream of that recording was opened, whatever settings
\* changes lie between.
C36_WrittenRateIsStreamRate ==
    (uiRet.op = "save" /\ uiRet.outcome \in Handed) =>
        uiRet.sample_rate = uiRet.take_rate

\* C38: when generate_text returns with a null error the text it returns,
\* normalized by clean_generated_text, is not empty; otherwise it returns
\* null text and a non-null error; for every response of the service.
C38_GeneratedTextNonEmptyOrError ==
    genRet.called =>
        IF genRet.error = NoError
        THEN genRet.text.present /\ genRet.text.pieces # <<>>
        ELSE ~genRet.text.present

=============================================================================
